---- MODULE Spec2Model ----
(***************************************************************************)
(* Appointment scheduler: interval optimizer, capacity accountant and      *)
(* assessment / therapy slot search (scheduler.ts).                        *)
(*                                                                         *)
(* Instants are whole minutes since 1970-01-01T00:00Z: the code's          *)
(* millisecond timestamps (Date.getTime()) divided by 60_000 throughout,   *)
(* so `durationMinutes * 60_000` ms is `durationMinutes` here.             *)
(***************************************************************************)
EXTENDS Integers, Sequences, FiniteSets, TLC

VARIABLES
    dates,              \* optimizeSlots: input array of instants
    durationMinutes,    \* optimizeSlots: appointment duration
    selected,           \* optimizeSlots(dates, durationMinutes)
    reselected,         \* optimizeSlots(selected, durationMinutes)
    patient,            \* [state, insurance]
    clinicians,         \* roster: sequence of clinician records
    proposed,           \* canAccommodateAppointments: the dates argument
    accommodates,       \* canAccommodateAppointments(clinicians[1], proposed)
    assessmentResults,  \* findAssessmentSlots(patient, clinicians)
    therapyResults,     \* findTherapySlots(patient, clinicians)
    instant,            \* calendar utilities: the date argument
    startOfDay,         \* getStartOfDay(instant)
    startOfWeek,        \* getStartOfWeek(instant)
    pending,            \* per-clinician evaluations not yet run: <<search, index>>
    merged,             \* entries merged so far, per search
    heap,               \* arrays by reference: heap[r] is the content of array r
    argument,           \* reference of the array handed to the call
    returned,           \* reference of the array the last call returned, 0 before
    countOnDay,  \* getAppointmentsOnDay(clinicians[1], instant)
    countInWeek, \* getAppointmentsInWeek(clinicians[1], instant)
    pc                  \* which call has returned

calendarVars == <<instant, startOfDay, startOfWeek>>

parallelVars == <<pending, merged>>

heapVars == <<heap, argument, returned>>

countVars == <<countOnDay, countInWeek>>

vars == <<dates, durationMinutes, selected, reselected, patient, clinicians,
          proposed, accommodates, assessmentResults, therapyResults,
          calendarVars, parallelVars, heapVars, countVars, pc>>

----------------------------------------------------------------------------
(* Bounds of the model *)

MaxDates == 3       \* longest dates array handed to optimizeSlots
MaxOffsets == 5     \* optimizer instants are 12:00 + 15*k minutes, k in 0..MaxOffsets
MaxAppointments == 2 \* longest clinician.appointments of the capacity checks
MaxProposed == 2    \* longest dates array handed to canAccommodateAppointments
MaxDaily == 2       \* largest maxDailyAppointments
MaxWeekly == 2      \* largest maxWeeklyAppointments
MaxSlots == 3       \* longest clinician.availableSlots of the assessment search
MaxRoster == 2      \* longest roster handed to the searches
MaxSpan == 7        \* calendar days after each Monday handed to the calendar utilities

----------------------------------------------------------------------------
(* Time *)

\* 24 * 60 * 60 * 1000 ms, in minutes
DayMinutes == 1440

\* 7 * 24 * 60 * 60 * 1000 ms, in minutes
WeekMinutes == 7 * DayMinutes

\* 2024-08-19T00:00:00.000Z (a Monday), minutes since the epoch
Aug19 == 19954 * DayMinutes

At(day, hh, mm) == Aug19 + day * DayMinutes + hh * 60 + mm

\* Date.prototype.toISOString: calendar date and time of day, UTC
toISOString(t) == [date |-> t \div DayMinutes, time |-> t % DayMinutes]

\* new Date(isoString)
parseISO(k) == k.date * DayMinutes + k.time

\* Date.prototype.getUTCDay: 0 = Sunday .. 6 = Saturday (day 0 was a Thursday)
getUTCDay(t) == ((t \div DayMinutes) + 4) % 7

\* getStartOfDay clearing the hours only: d.setUTCHours(0)
getStartOfDay_HoursOnly(date) == date - ((date % DayMinutes) \div 60) * 60

\* d.setUTCHours(0, 0, 0, 0)
getStartOfDay(date) == date - (date % DayMinutes)

\* the proleptic Gregorian calendar of Date, counted in 400-year eras of
\* 146097 days that start on a 1st of March: the calendar date of day doy of
\* the year y that starts in March, mp its month counted from March
CivilOfMonth(y, doy, mp) ==
    [year |-> y + (IF mp < 10 THEN 0 ELSE 1),
     month |-> IF mp < 10 THEN mp + 3 ELSE mp - 9,
     day |-> doy - ((153 * mp + 2) \div 5) + 1]

\* the year of its era (0..399) that day doe of the era lies in
YearOfEra(doe) ==
    (doe - (doe \div 1460) + (doe \div 36524) - (doe \div 146096)) \div 365

CivilOfYear(era, doe, yoe) ==
    CivilOfMonth(yoe + era * 400,
                 doe - (365 * yoe + (yoe \div 4) - (yoe \div 100)),
                 (5 * (doe - (365 * yoe + (yoe \div 4) - (yoe \div 100))) + 2) \div 153)

CivilOfEra(era, doe) == CivilOfYear(era, doe, YearOfEra(doe))

\* year, month (1..12) and day of the month of the epoch day z
CivilFromDays(z) ==
    CivilOfEra((z + 719468) \div 146097,
               (z + 719468) - ((z + 719468) \div 146097) * 146097)

\* the epoch day of day d of month m of the year that starts in March of yy
DaysOfMarchYear(yy, m, d) ==
    (yy \div 400) * 146097
      + (yy - (yy \div 400) * 400) * 365
      + ((yy - (yy \div 400) * 400) \div 4)
      - ((yy - (yy \div 400) * 400) \div 100)
      + ((153 * (IF m > 2 THEN m - 3 ELSE m + 9) + 2) \div 5) + d - 1
      - 719468

\* the epoch day of day d of month m of year y; d outside the month carries
\* into the neighbouring months, as MakeDay does
DaysFromCivil(y, m, d) == DaysOfMarchYear(IF m <= 2 THEN y - 1 ELSE y, m, d)

\* Date.prototype.getUTCDate: the day of the month, 1..31
getUTCDate(t) == CivilFromDays(t \div DayMinutes).day

\* day of the month v of the month of civil, at the time of day given
MakeDate(civil, v, time) == DaysFromCivil(civil.year, civil.month, v) * DayMinutes + time

\* Date.prototype.setUTCDate: the same month and time of day, day of month v
setUTCDate(t, v) == MakeDate(CivilFromDays(t \div DayMinutes), v, t % DayMinutes)

\* getStartOfWeek taking a Sunday to the Monday that follows it
getStartOfWeek_SundayForward(date) ==
    getStartOfDay(setUTCDate(date, getUTCDate(date) - getUTCDay(date) + 1))

\* d.setUTCDate(d.getUTCDate() - day + (day === 0 ? -6 : 1)); d.setUTCHours(0, 0, 0, 0)
getStartOfWeek(date) ==
    getStartOfDay(setUTCDate(date, getUTCDate(date) - getUTCDay(date)
                                       + (IF getUTCDay(date) = 0 THEN -6 ELSE 1)))

----------------------------------------------------------------------------
(* Array.prototype.sort with a numeric comparator: a stable sort *)

RECURSIVE InsertByKey(_, _, _)
InsertByKey(acc, k, x) ==
    IF acc = <<>> THEN << <<k, x>> >>
    ELSE IF acc[Len(acc)][1] <= k THEN Append(acc, <<k, x>>)
    ELSE Append(InsertByKey(SubSeq(acc, 1, Len(acc) - 1), k, x), acc[Len(acc)])

RECURSIVE SortPairs(_, _, _)
SortPairs(s, keys, n) ==
    IF n = 0 THEN <<>>
    ELSE InsertByKey(SortPairs(s, keys, n - 1), keys[n], s[n])

\* s sorted ascending by keys[i], equal keys keeping their order
StableSort(s, keys) ==
    LET p == SortPairs(s, keys, Len(s))
    IN  [i \in 1..Len(s) |-> p[i][2]]

----------------------------------------------------------------------------
(* Interval optimizer *)

\* GreedyScan advancing lastEnd to the interval's start instead of its end
RECURSIVE GreedyScan_LastEndIsStart(_, _, _, _, _)
GreedyScan_LastEndIsStart(intervals, i, started, lastEnd, acc) ==
    IF i > Len(intervals) THEN acc
    ELSE LET itv == intervals[i]
         IN  IF (~started) \/ itv.start >= lastEnd
             THEN GreedyScan_LastEndIsStart(intervals, i + 1, TRUE, itv.start,
                                            Append(acc, itv.start))
             ELSE GreedyScan_LastEndIsStart(intervals, i + 1, started, lastEnd, acc)

\* GreedyScan selecting only on start > lastEnd (adjacency treated as overlap)
RECURSIVE GreedyScan_Strict(_, _, _, _, _)
GreedyScan_Strict(intervals, i, started, lastEnd, acc) ==
    IF i > Len(intervals) THEN acc
    ELSE LET itv == intervals[i]
         IN  IF (~started) \/ itv.start > lastEnd
             THEN GreedyScan_Strict(intervals, i + 1, TRUE, itv.end, Append(acc, itv.start))
             ELSE GreedyScan_Strict(intervals, i + 1, started, lastEnd, acc)

\* the scan of optimizeSlots over the sorted intervals, from index i with
\* lastEnd = -Infinity encoded as started = FALSE
RECURSIVE GreedyScan(_, _, _, _, _)
GreedyScan(intervals, i, started, lastEnd, acc) ==
    IF i > Len(intervals) THEN acc
    ELSE LET itv == intervals[i]
         IN  IF (~started) \/ itv.start >= lastEnd
             THEN GreedyScan(intervals, i + 1, TRUE, itv.end, Append(acc, itv.start))
             ELSE GreedyScan(intervals, i + 1, started, lastEnd, acc)

\* optimizeSlots scanning the intervals in input order, without the sort
optimizeSlots_Unsorted(ds, duration) ==
    IF Len(ds) = 0 THEN <<>>
    ELSE LET mapped == [i \in 1..Len(ds) |-> [start |-> ds[i], end |-> ds[i] + duration]]
         IN  GreedyScan(mapped, 1, FALSE, 0, <<>>)

\* optimizeSlots scanning the intervals latest end first
optimizeSlots_LatestFirst(ds, duration) ==
    IF Len(ds) = 0 THEN <<>>
    ELSE LET mapped == [i \in 1..Len(ds) |-> [start |-> ds[i], end |-> ds[i] + duration]]
             intervals == StableSort(mapped, [i \in 1..Len(ds) |-> 0 - mapped[i].end])
         IN  GreedyScan(intervals, 1, FALSE, 0, <<>>)

\* optimizeSlots with a 15-minute buffer after every interval
optimizeSlots_Buffered(ds, duration) ==
    IF Len(ds) = 0 THEN <<>>
    ELSE LET mapped == [i \in 1..Len(ds) |->
                           [start |-> ds[i], end |-> ds[i] + duration + 15]]
             intervals == StableSort(mapped, [i \in 1..Len(ds) |-> mapped[i].end])
         IN  GreedyScan(intervals, 1, FALSE, 0, <<>>)

optimizeSlots(ds, duration) ==
    IF Len(ds) = 0 THEN <<>>
    ELSE LET mapped == [i \in 1..Len(ds) |-> [start |-> ds[i], end |-> ds[i] + duration]]
             intervals == StableSort(mapped, [i \in 1..Len(ds) |-> mapped[i].end])
         IN  GreedyScan(intervals, 1, FALSE, 0, <<>>)

----------------------------------------------------------------------------
(* Capacity accountant *)

\* COUNTABLE_STATUSES also counting no-shows
COUNTABLE_STATUSES_WithNoShow == <<"UPCOMING", "OCCURRED", "LATE_CANCELLATION", "NO_SHOW">>

\* COUNTABLE_STATUSES counting only what is still to come
COUNTABLE_STATUSES_UpcomingOnly == <<"UPCOMING">>

\* the statuses that consume capacity
COUNTABLE_STATUSES == <<"UPCOMING", "OCCURRED", "LATE_CANCELLATION">>

\* AppointmentStatus
AppointmentStatus ==
    {"UPCOMING", "OCCURRED", "LATE_CANCELLATION", "CANCELLED", "NO_SHOW", "RE_SCHEDULED"}

\* Array.prototype.includes
includes(arr, x) == \E i \in DOMAIN arr : arr[i] = x

\* CountInRange with a window closed at its end
CountInRange_ClosedEnd(clinician, start, end) ==
    Len(SelectSeq(clinician.appointments,
                  LAMBDA apt : /\ apt.scheduledFor >= start /\ apt.scheduledFor <= end
                               /\ includes(COUNTABLE_STATUSES, apt.status)))

\* clinician.appointments.filter(apt => start <= aptTime < end && countable).length
CountInRange(clinician, start, end) ==
    Len(SelectSeq(clinician.appointments,
                  LAMBDA apt : /\ apt.scheduledFor >= start /\ apt.scheduledFor < end
                               /\ includes(COUNTABLE_STATUSES, apt.status)))

\* getAppointmentsOnDay with a day window that ends where it starts
getAppointmentsOnDay_EmptyWindow(clinician, date) ==
    LET dayStart == getStartOfDay(date)
    IN  CountInRange(clinician, dayStart, dayStart)

getAppointmentsOnDay(clinician, date) ==
    LET dayStart == getStartOfDay(date)
        dayEnd == dayStart + DayMinutes
    IN  CountInRange(clinician, dayStart, dayEnd)

getAppointmentsInWeek(clinician, date) ==
    LET weekStart == getStartOfWeek(date)
        weekEnd == weekStart + WeekMinutes
    IN  CountInRange(clinician, weekStart, weekEnd)

\* MapIncrement starting a new map at every key it has not seen
MapIncrement_ForgetsOtherKeys(map, key) ==
    IF \E j \in DOMAIN map : map[j].key = key
    THEN [j \in DOMAIN map |->
            IF map[j].key = key THEN [map[j] EXCEPT !.count = @ + 1] ELSE map[j]]
    ELSE <<[key |-> key, count |-> 1]>>

\* map.set(key, (map.get(key) || 0) + 1) on a Map kept in insertion order
MapIncrement(map, key) ==
    IF \E j \in DOMAIN map : map[j].key = key
    THEN [j \in DOMAIN map |->
            IF map[j].key = key THEN [map[j] EXCEPT !.count = @ + 1] ELSE map[j]]
    ELSE Append(map, [key |-> key, count |-> 1])

\* for (const date of dates) map.set(keyOf(date), ...), keys given per date
RECURSIVE CountsByKey(_, _)
CountsByKey(keys, n) ==
    IF n = 0 THEN <<>> ELSE MapIncrement(CountsByKey(keys, n - 1), keys[n])

\* DailyLimitsHold rejecting a day that would land exactly on its limit
RECURSIVE DailyLimitsHold_AtLimitRejected(_, _, _)
DailyLimitsHold_AtLimitRejected(clinician, countsByDay, i) ==
    IF i > Len(countsByDay) THEN TRUE
    ELSE LET representativeDate == parseISO(countsByDay[i].key)
             existingCount == getAppointmentsOnDay(clinician, representativeDate)
         IN  IF existingCount + countsByDay[i].count >= clinician.maxDailyAppointments
             THEN FALSE
             ELSE DailyLimitsHold_AtLimitRejected(clinician, countsByDay, i + 1)

\* the daily loop: FALSE at the first day whose limit would be exceeded
RECURSIVE DailyLimitsHold(_, _, _)
DailyLimitsHold(clinician, countsByDay, i) ==
    IF i > Len(countsByDay) THEN TRUE
    ELSE LET representativeDate == parseISO(countsByDay[i].key)
             existingCount == getAppointmentsOnDay(clinician, representativeDate)
         IN  IF existingCount + countsByDay[i].count > clinician.maxDailyAppointments
             THEN FALSE
             ELSE DailyLimitsHold(clinician, countsByDay, i + 1)

\* WeeklyLimitsHold checking only the first week of the proposed dates
WeeklyLimitsHold_FirstWeekOnly(clinician, countsByWeek, i) ==
    IF i > Len(countsByWeek) THEN TRUE
    ELSE LET representativeDate == parseISO(countsByWeek[i].key)
             appointmentsInWeek == getAppointmentsInWeek(clinician, representativeDate)
         IN  ~(appointmentsInWeek + countsByWeek[i].count > clinician.maxWeeklyAppointments)

\* the weekly loop: FALSE at the first week whose limit would be exceeded
RECURSIVE WeeklyLimitsHold(_, _, _)
WeeklyLimitsHold(clinician, countsByWeek, i) ==
    IF i > Len(countsByWeek) THEN TRUE
    ELSE LET representativeDate == parseISO(countsByWeek[i].key)
             appointmentsInWeek == getAppointmentsInWeek(clinician, representativeDate)
         IN  IF appointmentsInWeek + countsByWeek[i].count > clinician.maxWeeklyAppointments
             THEN FALSE
             ELSE WeeklyLimitsHold(clinician, countsByWeek, i + 1)

\* canAccommodateAppointments checking each proposed date on its own instead of
\* the number of proposed dates per week
canAccommodateAppointments_WeekPerDate(clinician, ds) ==
    LET countsByDay ==
            CountsByKey([i \in DOMAIN ds |-> toISOString(getStartOfDay(ds[i]))], Len(ds))
    IN  IF ~DailyLimitsHold(clinician, countsByDay, 1) THEN FALSE
        ELSE \A i \in DOMAIN ds :
                getAppointmentsInWeek(clinician, ds[i]) + 1 <= clinician.maxWeeklyAppointments

canAccommodateAppointments(clinician, ds) ==
    LET countsByDay ==
            CountsByKey([i \in DOMAIN ds |-> toISOString(getStartOfDay(ds[i]))], Len(ds))
        countsByWeek ==
            CountsByKey([i \in DOMAIN ds |-> toISOString(getStartOfWeek(ds[i]))], Len(ds))
    IN  IF ~DailyLimitsHold(clinician, countsByDay, 1) THEN FALSE
        ELSE WeeklyLimitsHold(clinician, countsByWeek, 1)

----------------------------------------------------------------------------
(* Eligibility and slot searches *)

\* isClinicianEligible accepting a match on either the state or the insurance
isClinicianEligible_Either(clinician, p) ==
    \/ includes(clinician.states, p.state)
    \/ includes(clinician.insurances, p.insurance)

isClinicianEligible(clinician, p) ==
    /\ includes(clinician.states, p.state)
    /\ includes(clinician.insurances, p.insurance)

\* SlotDates taking the slots of every length
SlotDates_AnyLength(clinician, length) ==
    LET ds == [i \in DOMAIN clinician.availableSlots |-> clinician.availableSlots[i].date]
    IN  StableSort(ds, ds)

\* availableSlots.filter(slot => slot.length === length).map(slot => slot.date).sort(...)
SlotDates(clinician, length) ==
    LET kept == SelectSeq(clinician.availableSlots, LAMBDA slot : slot.length = length)
        ds == [i \in DOMAIN kept |-> kept[i].date]
    IN  StableSort(ds, ds)

\* GroupPush opening a new group for every slot
GroupPush_AlwaysNewDay(map, dayKey, slot) ==
    Append(map, [dayKey |-> dayKey, slots |-> <<slot>>])

\* slotsByDay.get(dayKey).push(slot) on a Map kept in insertion order
GroupPush(map, dayKey, slot) ==
    IF \E j \in DOMAIN map : map[j].dayKey = dayKey
    THEN [j \in DOMAIN map |->
            IF map[j].dayKey = dayKey
            THEN [map[j] EXCEPT !.slots = Append(@, slot)] ELSE map[j]]
    ELSE Append(map, [dayKey |-> dayKey, slots |-> <<slot>>])

RECURSIVE SlotsByDay(_, _)
SlotsByDay(slots, n) ==
    IF n = 0 THEN <<>>
    ELSE GroupPush(SlotsByDay(slots, n - 1), toISOString(getStartOfDay(slots[n])), slots[n])

\* EligibleDays keeping only the days with room for two more appointments
EligibleDays_TwoSlotHeadroom(clinician, slotsByDay) ==
    LET kept == SelectSeq(slotsByDay,
                   LAMBDA g : getAppointmentsOnDay(clinician, parseISO(g.dayKey)) + 2
                                  <= clinician.maxDailyAppointments)
        days == [i \in DOMAIN kept |->
                    [dayKey |-> kept[i].dayKey, dayTime |-> parseISO(kept[i].dayKey),
                     slots |-> kept[i].slots]]
    IN  StableSort(days, [i \in DOMAIN days |-> days[i].dayTime])

\* the days with room for at least one more appointment, sorted by date
EligibleDays(clinician, slotsByDay) ==
    LET kept == SelectSeq(slotsByDay,
                   LAMBDA g : getAppointmentsOnDay(clinician, parseISO(g.dayKey)) + 1
                                  <= clinician.maxDailyAppointments)
        days == [i \in DOMAIN kept |->
                    [dayKey |-> kept[i].dayKey, dayTime |-> parseISO(kept[i].dayKey),
                     slots |-> kept[i].slots]]
    IN  StableSort(days, [i \in DOMAIN days |-> days[i].dayTime])

\* SlotCombinations emitting the later day's slot as session1
RECURSIVE SlotCombinations_Swapped(_, _, _, _, _)
SlotCombinations_Swapped(clinician, day1, day2, k, acc) ==
    LET n2 == Len(day2.slots) IN
    IF k > Len(day1.slots) * n2 THEN acc
    ELSE LET slot1 == day1.slots[((k - 1) \div n2) + 1]
             slot2 == day2.slots[((k - 1) % n2) + 1]
         IN  IF ~canAccommodateAppointments(clinician, <<slot1, slot2>>)
             THEN SlotCombinations_Swapped(clinician, day1, day2, k + 1, acc)
             ELSE SlotCombinations_Swapped(clinician, day1, day2, k + 1,
                                   Append(acc, [session1 |-> slot2, session2 |-> slot1]))

\* SlotCombinations measuring the 7 days between the two instants
RECURSIVE SlotCombinations_GapBetweenInstants(_, _, _, _, _)
SlotCombinations_GapBetweenInstants(clinician, day1, day2, k, acc) ==
    LET n2 == Len(day2.slots) IN
    IF k > Len(day1.slots) * n2 THEN acc
    ELSE LET slot1 == day1.slots[((k - 1) \div n2) + 1]
             slot2 == day2.slots[((k - 1) % n2) + 1]
         IN  IF slot2 - slot1 > WeekMinutes
                    \/ ~canAccommodateAppointments(clinician, <<slot1, slot2>>)
             THEN SlotCombinations_GapBetweenInstants(clinician, day1, day2, k + 1, acc)
             ELSE SlotCombinations_GapBetweenInstants(clinician, day1, day2, k + 1,
                                   Append(acc, [session1 |-> slot1, session2 |-> slot2]))

\* for (slot1 of day1.slots) for (slot2 of day2.slots): the k-th combination on
RECURSIVE SlotCombinations(_, _, _, _, _)
SlotCombinations(clinician, day1, day2, k, acc) ==
    LET n2 == Len(day2.slots) IN
    IF k > Len(day1.slots) * n2 THEN acc
    ELSE LET slot1 == day1.slots[((k - 1) \div n2) + 1]
             slot2 == day2.slots[((k - 1) % n2) + 1]
         IN  IF ~canAccommodateAppointments(clinician, <<slot1, slot2>>)
             THEN SlotCombinations(clinician, day1, day2, k + 1, acc)
             ELSE SlotCombinations(clinician, day1, day2, k + 1,
                                   Append(acc, [session1 |-> slot1, session2 |-> slot2]))

\* ValidPairs leaving the j loop already at a gap of exactly 7 days
RECURSIVE ValidPairs_GapExclusive(_, _, _, _, _)
ValidPairs_GapExclusive(clinician, eligibleDays, i, j, acc) ==
    IF i > Len(eligibleDays) THEN acc
    ELSE IF j > Len(eligibleDays)
         THEN ValidPairs_GapExclusive(clinician, eligibleDays, i + 1, i + 2, acc)
    ELSE LET day1 == eligibleDays[i]
             day2 == eligibleDays[j]
             daysDiff == day2.dayTime - day1.dayTime
         IN  IF daysDiff >= WeekMinutes
             THEN ValidPairs_GapExclusive(clinician, eligibleDays, i + 1, i + 2, acc)
             ELSE ValidPairs_GapExclusive(clinician, eligibleDays, i, j + 1,
                                          SlotCombinations(clinician, day1, day2, 1, acc))

\* ValidPairs pairing every later day, whatever the gap
RECURSIVE ValidPairs_NoGapLimit(_, _, _, _, _)
ValidPairs_NoGapLimit(clinician, eligibleDays, i, j, acc) ==
    IF i > Len(eligibleDays) THEN acc
    ELSE IF j > Len(eligibleDays)
         THEN ValidPairs_NoGapLimit(clinician, eligibleDays, i + 1, i + 2, acc)
    ELSE ValidPairs_NoGapLimit(clinician, eligibleDays, i, j + 1,
             SlotCombinations(clinician, eligibleDays[i], eligibleDays[j], 1, acc))

\* the loops over i and j > i, leaving the j loop at the first gap over 7 days
RECURSIVE ValidPairs(_, _, _, _, _)
ValidPairs(clinician, eligibleDays, i, j, acc) ==
    IF i > Len(eligibleDays) THEN acc
    ELSE IF j > Len(eligibleDays) THEN ValidPairs(clinician, eligibleDays, i + 1, i + 2, acc)
    ELSE LET day1 == eligibleDays[i]
             day2 == eligibleDays[j]
             daysDiff == day2.dayTime - day1.dayTime
         IN  IF daysDiff > WeekMinutes
             THEN ValidPairs(clinician, eligibleDays, i + 1, i + 2, acc)
             ELSE ValidPairs(clinician, eligibleDays, i, j + 1,
                             SlotCombinations(clinician, day1, day2, 1, acc))

\* AssessClinician pushing an entry whether or not a pair was found
AssessClinician_AlwaysPush(p, clinician, results) ==
    IF clinician.clinicianType # "PSYCHOLOGIST" THEN results
    ELSE IF ~isClinicianEligible(clinician, p) THEN results
    ELSE LET assessmentSlots == SlotDates(clinician, 90) IN
         IF Len(assessmentSlots) < 2 THEN results
         ELSE LET slotsByDay == SlotsByDay(assessmentSlots, Len(assessmentSlots))
                  eligibleDays == EligibleDays(clinician, slotsByDay)
              IN  IF Len(eligibleDays) < 2 THEN results
                  ELSE Append(results,
                              [clinician |-> clinician,
                               availableSlotPairs |->
                                   ValidPairs(clinician, eligibleDays, 1, 2, <<>>)])

\* AssessClinician leaving the results alone once they hold an entry
AssessClinician_StopsAfterFirst(p, clinician, results) ==
    IF Len(results) > 0 THEN results
    ELSE IF clinician.clinicianType # "PSYCHOLOGIST" THEN results
    ELSE IF ~isClinicianEligible(clinician, p) THEN results
    ELSE LET assessmentSlots == SlotDates(clinician, 90) IN
         IF Len(assessmentSlots) < 2 THEN results
         ELSE LET slotsByDay == SlotsByDay(assessmentSlots, Len(assessmentSlots))
                  eligibleDays == EligibleDays(clinician, slotsByDay)
              IN  IF Len(eligibleDays) < 2 THEN results
                  ELSE LET validPairs == ValidPairs(clinician, eligibleDays, 1, 2, <<>>)
                       IN  IF Len(validPairs) > 0
                           THEN Append(results, [clinician |-> clinician,
                                                 availableSlotPairs |-> validPairs])
                           ELSE results

\* one iteration of the loop of findAssessmentSlots: results after this clinician
AssessClinician(p, clinician, results) ==
    IF clinician.clinicianType # "PSYCHOLOGIST" THEN results
    ELSE IF ~isClinicianEligible(clinician, p) THEN results
    ELSE LET assessmentSlots == SlotDates(clinician, 90) IN
         IF Len(assessmentSlots) < 2 THEN results
         ELSE LET slotsByDay == SlotsByDay(assessmentSlots, Len(assessmentSlots))
                  eligibleDays == EligibleDays(clinician, slotsByDay)
              IN  IF Len(eligibleDays) < 2 THEN results
                  ELSE LET validPairs == ValidPairs(clinician, eligibleDays, 1, 2, <<>>)
                       IN  IF Len(validPairs) > 0
                           THEN Append(results, [clinician |-> clinician,
                                                 availableSlotPairs |-> validPairs])
                           ELSE results

RECURSIVE AssessLoop(_, _, _)
AssessLoop(p, cs, n) ==
    IF n = 0 THEN <<>> ELSE AssessClinician(p, cs[n], AssessLoop(p, cs, n - 1))

findAssessmentSlots(p, cs) == AssessLoop(p, cs, Len(cs))

\* for (daySlots of slotsByDay.values()) optimizedSlots.push(...optimizeSlots(daySlots, 60))
RECURSIVE OptimizedSlots(_, _)
OptimizedSlots(slotsByDay, n) ==
    IF n = 0 THEN <<>>
    ELSE OptimizedSlots(slotsByDay, n - 1) \o optimizeSlots(slotsByDay[n].slots, 60)

\* TherapyClinician checking the capacity for all optimized slots as one batch
TherapyClinician_BatchCapacity(p, clinician, results) ==
    IF clinician.clinicianType # "THERAPIST" THEN results
    ELSE IF ~isClinicianEligible(clinician, p) THEN results
    ELSE LET therapySlots == SlotDates(clinician, 60) IN
         IF Len(therapySlots) = 0 THEN results
         ELSE LET slotsByDay == SlotsByDay(therapySlots, Len(therapySlots))
                  unsorted == OptimizedSlots(slotsByDay, Len(slotsByDay))
                  optimizedSlots == StableSort(unsorted, unsorted)
              IN  IF canAccommodateAppointments(clinician, optimizedSlots)
                  THEN Append(results, [clinician |-> clinician,
                                        availableSlots |-> optimizedSlots])
                  ELSE results

\* the slots taken one after the other, each one only if the clinician can
\* accommodate it together with those already taken
RECURSIVE CumulativeFilter(_, _, _)
CumulativeFilter(clinician, slots, n) ==
    IF n = 0 THEN <<>>
    ELSE LET taken == CumulativeFilter(clinician, slots, n - 1)
         IN  IF canAccommodateAppointments(clinician, Append(taken, slots[n]))
             THEN Append(taken, slots[n]) ELSE taken

\* TherapyClinician filling the remaining capacity slot by slot
TherapyClinician_CumulativeCapacity(p, clinician, results) ==
    IF clinician.clinicianType # "THERAPIST" THEN results
    ELSE IF ~isClinicianEligible(clinician, p) THEN results
    ELSE LET therapySlots == SlotDates(clinician, 60) IN
         IF Len(therapySlots) = 0 THEN results
         ELSE LET slotsByDay == SlotsByDay(therapySlots, Len(therapySlots))
                  unsorted == OptimizedSlots(slotsByDay, Len(slotsByDay))
                  optimizedSlots == StableSort(unsorted, unsorted)
                  availableSlots ==
                      CumulativeFilter(clinician, optimizedSlots, Len(optimizedSlots))
              IN  IF Len(availableSlots) > 0
                  THEN Append(results, [clinician |-> clinician,
                                        availableSlots |-> availableSlots])
                  ELSE results

\* one iteration of the loop of findTherapySlots: results after this clinician
TherapyClinician(p, clinician, results) ==
    IF clinician.clinicianType # "THERAPIST" THEN results
    ELSE IF ~isClinicianEligible(clinician, p) THEN results
    ELSE LET therapySlots == SlotDates(clinician, 60) IN
         IF Len(therapySlots) = 0 THEN results
         ELSE LET slotsByDay == SlotsByDay(therapySlots, Len(therapySlots))
                  unsorted == OptimizedSlots(slotsByDay, Len(slotsByDay))
                  optimizedSlots == StableSort(unsorted, unsorted)
                  availableSlots ==
                      SelectSeq(optimizedSlots,
                                LAMBDA slot : canAccommodateAppointments(clinician, <<slot>>))
              IN  IF Len(availableSlots) > 0
                  THEN Append(results, [clinician |-> clinician,
                                        availableSlots |-> availableSlots])
                  ELSE results

RECURSIVE TherapyLoop(_, _, _)
TherapyLoop(p, cs, n) ==
    IF n = 0 THEN <<>> ELSE TherapyClinician(p, cs[n], TherapyLoop(p, cs, n - 1))

findTherapySlots(p, cs) == TherapyLoop(p, cs, Len(cs))

----------------------------------------------------------------------------
(* The same functions over arrays held by reference.  A reference is an     *)
(* index into the heap; .map and .filter and [] allocate a new array, .sort *)
(* and .push work on the array they are called on.                          *)

\* a fresh array; its reference is Len of the heap returned
NewArray(h, elements) == Append(h, elements)

\* arr.sort(comparator): sorts the array at ref in place
ArraySort(h, ref, keys) == [h EXCEPT ![ref] = StableSort(h[ref], keys)]

\* arr.push(...elements) on the array at ref
ArrayPush(h, ref, elements) == [h EXCEPT ![ref] = h[ref] \o elements]

\* optimizeSlots sorting the dates array itself before mapping it
optimizeSlotsOnHeap_SortsDates(h, datesRef, duration) ==
    IF Len(h[datesRef]) = 0
    THEN [heap |-> NewArray(h, <<>>), ref |-> Len(h) + 1]
    ELSE LET h0 == ArraySort(h, datesRef, h[datesRef])
             ds == h0[datesRef]
             h1 == NewArray(h0, [i \in 1..Len(ds) |-> [start |-> ds[i], end |-> ds[i] + duration]])
             intervalsRef == Len(h1)
             h2 == NewArray(h1, GreedyScan(h1[intervalsRef], 1, FALSE, 0, <<>>))
         IN  [heap |-> h2, ref |-> Len(h2)]

\* optimizeSlots(dates, durationMinutes): the heap after the call and the
\* reference returned
optimizeSlotsOnHeap(h, datesRef, duration) ==
    IF Len(h[datesRef]) = 0
    THEN [heap |-> NewArray(h, <<>>), ref |-> Len(h) + 1]
    ELSE LET ds == h[datesRef]
             h1 == NewArray(h, [i \in 1..Len(ds) |-> [start |-> ds[i], end |-> ds[i] + duration]])
             intervalsRef == Len(h1)
             h2 == ArraySort(h1, intervalsRef,
                             [i \in 1..Len(ds) |-> h1[intervalsRef][i].end])
             h3 == NewArray(h2, GreedyScan(h2[intervalsRef], 1, FALSE, 0, <<>>))
         IN  [heap |-> h3, ref |-> Len(h3)]

\* the clinician object with the contents of its two arrays
Deref(h, clinician) ==
    [clinician EXCEPT !.availableSlots = h[clinician.availableSlots],
                      !.appointments = h[clinician.appointments]]

\* clinician.availableSlots.filter(...).map(slot => slot.date).sort(...):
\* the sorted array is the last one of the heap returned
SlotDatesOnHeap(h, clinician, length) ==
    LET h1 == NewArray(h, SelectSeq(h[clinician.availableSlots],
                                    LAMBDA slot : slot.length = length))
        kept == h1[Len(h1)]
        h2 == NewArray(h1, [i \in DOMAIN kept |-> kept[i].date])
    IN  ArraySort(h2, Len(h2), h2[Len(h2)])

\* one iteration of the loop of findAssessmentSlots
AssessClinicianOnHeap(h, p, clinician, resultsRef) ==
    IF clinician.clinicianType # "PSYCHOLOGIST" THEN h
    ELSE IF ~isClinicianEligible(clinician, p) THEN h
    ELSE LET h3 == SlotDatesOnHeap(h, clinician, 90)
             assessmentSlots == h3[Len(h3)]
         IN  IF Len(assessmentSlots) < 2 THEN h3
             ELSE LET c == Deref(h3, clinician)
                      slotsByDay == SlotsByDay(assessmentSlots, Len(assessmentSlots))
                      eligibleDays == EligibleDays(c, slotsByDay)
                  IN  IF Len(eligibleDays) < 2 THEN h3
                      ELSE LET h4 == NewArray(h3, ValidPairs(c, eligibleDays, 1, 2, <<>>))
                               validPairs == Len(h4)
                           IN  IF Len(h4[validPairs]) > 0
                               THEN ArrayPush(h4, resultsRef,
                                              <<[clinician |-> clinician,
                                                 availableSlotPairs |-> validPairs]>>)
                               ELSE h4

RECURSIVE AssessLoopOnHeap(_, _, _, _, _)
AssessLoopOnHeap(h, p, rosterRef, resultsRef, n) ==
    IF n = 0 THEN h
    ELSE LET before == AssessLoopOnHeap(h, p, rosterRef, resultsRef, n - 1)
         IN  AssessClinicianOnHeap(before, p, before[rosterRef][n], resultsRef)

\* findAssessmentSlots(patient, clinicians): the heap after the call and the
\* reference returned
findAssessmentSlotsOnHeap(h, p, rosterRef) ==
    LET h0 == NewArray(h, <<>>)
        resultsRef == Len(h0)
    IN  [heap |-> AssessLoopOnHeap(h0, p, rosterRef, resultsRef, Len(h[rosterRef])),
         ref |-> resultsRef]

\* for (daySlots of slotsByDay.values()) optimizedSlots.push(...optimizeSlots(daySlots, 60))
RECURSIVE OptimizedSlotsOnHeap(_, _, _, _)
OptimizedSlotsOnHeap(h, slotsByDay, n, optimizedRef) ==
    IF n = 0 THEN h
    ELSE LET before == OptimizedSlotsOnHeap(h, slotsByDay, n - 1, optimizedRef)
             hd == NewArray(before, slotsByDay[n].slots)
             optimized == optimizeSlotsOnHeap(hd, Len(hd), 60)
         IN  ArrayPush(optimized.heap, optimizedRef, optimized.heap[optimized.ref])

\* one iteration of the loop of findTherapySlots
TherapyClinicianOnHeap(h, p, clinician, resultsRef) ==
    IF clinician.clinicianType # "THERAPIST" THEN h
    ELSE IF ~isClinicianEligible(clinician, p) THEN h
    ELSE LET h3 == SlotDatesOnHeap(h, clinician, 60)
             therapySlots == h3[Len(h3)]
         IN  IF Len(therapySlots) = 0 THEN h3
             ELSE LET c == Deref(h3, clinician)
                      slotsByDay == SlotsByDay(therapySlots, Len(therapySlots))
                      h4 == NewArray(h3, <<>>)
                      optimizedSlots == Len(h4)
                      h5 == OptimizedSlotsOnHeap(h4, slotsByDay, Len(slotsByDay), optimizedSlots)
                      h6 == ArraySort(h5, optimizedSlots, h5[optimizedSlots])
                      h7 == NewArray(h6, SelectSeq(h6[optimizedSlots],
                                LAMBDA slot : canAccommodateAppointments(c, <<slot>>)))
                      availableSlots == Len(h7)
                  IN  IF Len(h7[availableSlots]) > 0
                      THEN ArrayPush(h7, resultsRef,
                                     <<[clinician |-> clinician,
                                        availableSlots |-> availableSlots]>>)
                      ELSE h7

RECURSIVE TherapyLoopOnHeap(_, _, _, _, _)
TherapyLoopOnHeap(h, p, rosterRef, resultsRef, n) ==
    IF n = 0 THEN h
    ELSE LET before == TherapyLoopOnHeap(h, p, rosterRef, resultsRef, n - 1)
         IN  TherapyClinicianOnHeap(before, p, before[rosterRef][n], resultsRef)

\* findTherapySlots(patient, clinicians): the heap after the call and the
\* reference returned
findTherapySlotsOnHeap(h, p, rosterRef) ==
    LET h0 == NewArray(h, <<>>)
        resultsRef == Len(h0)
    IN  [heap |-> TherapyLoopOnHeap(h0, p, rosterRef, resultsRef, Len(h[rosterRef])),
         ref |-> resultsRef]

----------------------------------------------------------------------------
(* Inputs *)

SeqsUpTo(S, n) == UNION {[1..k -> S] : k \in 0..n}

OptInstants == {At(0, 12, 15 * k) : k \in 0..MaxOffsets}

Durations == {-15, 0, 15, 30, 60, 90}

NoPatient == [state |-> "NY", insurance |-> "AETNA"]

\* no calendar call under way
CalendarIdle == instant = 0 /\ startOfDay = 0 /\ startOfWeek = 0

NoEntries == [assessment |-> <<>>, therapy |-> <<>>]

\* no per-clinician evaluation under way
ParallelIdle == pending = {} /\ merged = NoEntries

\* no count has been taken
CountIdle == countOnDay = 0 /\ countInWeek = 0

\* no array has been allocated
HeapIdle == heap = <<>> /\ argument = 0 /\ returned = 0

----------------------------------------------------------------------------
(* The optimizer, called on its own *)

InitOpt ==
    /\ dates \in SeqsUpTo(OptInstants, MaxDates)
    /\ durationMinutes \in Durations
    /\ selected = <<>>
    /\ reselected = <<>>
    /\ patient = NoPatient
    /\ clinicians = <<>>
    /\ proposed = <<>>
    /\ accommodates = FALSE
    /\ assessmentResults = <<>>
    /\ therapyResults = <<>>
    /\ CalendarIdle
    /\ ParallelIdle
    /\ HeapIdle
    /\ CountIdle
    /\ pc = "start"

\* const result = optimizeSlots(dates, durationMinutes)
CallOptimizeSlots ==
    /\ pc = "start"
    /\ selected' = optimizeSlots(dates, durationMinutes)
    /\ pc' = "optimized"
    /\ UNCHANGED <<dates, durationMinutes, reselected, patient, clinicians,
                   proposed, accommodates, assessmentResults, therapyResults,
                   calendarVars, parallelVars, heapVars, countVars>>

\* optimizeSlots(result, durationMinutes)
CallOptimizeSlotsAgain ==
    /\ pc = "optimized"
    /\ reselected' = optimizeSlots(selected, durationMinutes)
    /\ pc' = "reoptimized"
    /\ UNCHANGED <<dates, durationMinutes, selected, patient, clinicians,
                   proposed, accommodates, assessmentResults, therapyResults,
                   calendarVars, parallelVars, heapVars, countVars>>

NextOpt == CallOptimizeSlots \/ CallOptimizeSlotsAgain

SpecOpt == InitOpt /\ [][NextOpt]_vars

----------------------------------------------------------------------------
(* The capacity accountant and the searches over one clinician's load *)

\* a clinician record (the fields the scheduler reads)
Clinician(id, type, maxDaily, maxWeekly, slots, appointments) ==
    [id |-> id, clinicianType |-> type,
     states |-> <<"NY", "CA">>, insurances |-> <<"AETNA", "CIGNA">>,
     maxDailyAppointments |-> maxDaily, maxWeeklyAppointments |-> maxWeekly,
     availableSlots |-> slots, appointments |-> appointments]

Slot(date, length) == [date |-> date, length |-> length]

\* Monday 00:00, Sunday 23:59 of the same week, Monday 10:00 of the next week
CapAppointmentInstants == {At(0, 0, 0), At(6, 23, 59), At(7, 10, 0)}

Appointment(scheduledFor, status) == [scheduledFor |-> scheduledFor, status |-> status]

\* every status, a consuming and an exempt one at each instant
CapAppointmentPool ==
    {Appointment(At(0, 0, 0), "UPCOMING"), Appointment(At(0, 0, 0), "CANCELLED"),
     Appointment(At(6, 23, 59), "OCCURRED"), Appointment(At(6, 23, 59), "NO_SHOW"),
     Appointment(At(7, 10, 0), "LATE_CANCELLATION"),
     Appointment(At(7, 10, 0), "RE_SCHEDULED")}

\* Monday 12:00, Sunday 15:00 of the same week, Monday 00:00 of the next week
CapProposedInstants == {At(0, 12, 0), At(6, 15, 0), At(7, 0, 0)}

\* the appointment arrays, in the order of their instants (the counters
\* filter the array and take its length, whatever its order)
CapAppointments ==
    {appts \in SeqsUpTo(CapAppointmentPool, MaxAppointments) :
        \A i \in 2..Len(appts) : appts[i - 1].scheduledFor <= appts[i].scheduledFor}

CapAssessmentSlots ==
    <<Slot(At(0, 12, 0), 90), Slot(At(2, 12, 0), 90), Slot(At(6, 15, 0), 90),
      Slot(At(7, 12, 15), 90), Slot(At(6, 9, 0), 60)>>

CapTherapySlots ==
    <<Slot(At(0, 14, 0), 60), Slot(At(0, 14, 30), 60), Slot(At(6, 10, 0), 60),
      Slot(At(7, 9, 0), 60), Slot(At(2, 9, 0), 90)>>

InitCap ==
    /\ \E appts \in CapAppointments, d \in 1..MaxDaily, w \in 1..MaxWeekly :
          clinicians = <<Clinician("psychologist-1", "PSYCHOLOGIST", d, w,
                                   CapAssessmentSlots, appts),
                         Clinician("therapist-1", "THERAPIST", d, w,
                                   CapTherapySlots, appts)>>
    /\ \/ pc = "start" /\ proposed \in SeqsUpTo(CapProposedInstants, MaxProposed)
       \/ pc = "search" /\ proposed = <<>>
    /\ patient = NoPatient
    /\ dates = <<>>
    /\ durationMinutes = 0
    /\ selected = <<>>
    /\ reselected = <<>>
    /\ accommodates = FALSE
    /\ assessmentResults = <<>>
    /\ therapyResults = <<>>
    /\ CalendarIdle
    /\ ParallelIdle
    /\ HeapIdle
    /\ CountIdle

\* canAccommodateAppointments(clinician, dates)
CallCanAccommodate ==
    /\ pc = "start"
    /\ accommodates' = canAccommodateAppointments(clinicians[1], proposed)
    /\ pc' = "accommodated"
    /\ UNCHANGED <<dates, durationMinutes, selected, reselected, patient, clinicians,
                   proposed, assessmentResults, therapyResults,
                   calendarVars, parallelVars, heapVars, countVars>>

\* findAssessmentSlots(patient, clinicians)
CallFindAssessmentSlots ==
    /\ pc = "search"
    /\ assessmentResults' = findAssessmentSlots(patient, clinicians)
    /\ pc' = "assessed"
    /\ UNCHANGED <<dates, durationMinutes, selected, reselected, patient, clinicians,
                   proposed, accommodates, therapyResults,
                   calendarVars, parallelVars, heapVars, countVars>>

\* findTherapySlots(patient, clinicians)
CallFindTherapySlots ==
    /\ pc = "assessed"
    /\ therapyResults' = findTherapySlots(patient, clinicians)
    /\ pc' = "listed"
    /\ UNCHANGED <<dates, durationMinutes, selected, reselected, patient, clinicians,
                   proposed, accommodates, assessmentResults,
                   calendarVars, parallelVars, heapVars, countVars>>

NextCap == CallCanAccommodate \/ CallFindAssessmentSlots \/ CallFindTherapySlots

SpecCap == InitCap /\ [][NextCap]_vars

----------------------------------------------------------------------------
(* The assessment search over one eligible psychologist *)

\* two slots on Monday, one on Wednesday, one 7 and one 8 days after the first
\* Monday, and a 60-minute slot
AssessSlotPool ==
    {Slot(At(0, 12, 0), 90), Slot(At(0, 12, 15), 90), Slot(At(2, 15, 0), 90),
     Slot(At(7, 12, 0), 90), Slot(At(8, 9, 0), 90), Slot(At(2, 15, 0), 60)}

\* the appointment lists of the assessment search: none, one day loaded,
\* both weeks loaded, a day loaded twice, an exempt appointment
AssessAppointments ==
    {<<>>,
     <<Appointment(At(0, 10, 0), "UPCOMING")>>,
     <<Appointment(At(2, 10, 0), "OCCURRED")>>,
     <<Appointment(At(7, 10, 0), "UPCOMING")>>,
     <<Appointment(At(0, 10, 0), "CANCELLED")>>,
     <<Appointment(At(0, 10, 0), "UPCOMING"), Appointment(At(7, 10, 0), "UPCOMING")>>,
     <<Appointment(At(0, 10, 0), "UPCOMING"), Appointment(At(2, 10, 0), "OCCURRED")>>,
     <<Appointment(At(0, 10, 0), "UPCOMING"), Appointment(At(0, 16, 0), "LATE_CANCELLATION")>>}

InitAssess ==
    /\ \E slots \in SeqsUpTo(AssessSlotPool, MaxSlots),
          appts \in AssessAppointments,
          d \in 1..MaxDaily, w \in 1..MaxWeekly :
          clinicians = <<Clinician("psychologist-1", "PSYCHOLOGIST", d, w, slots, appts)>>
    /\ patient = NoPatient
    /\ proposed = <<>>
    /\ dates = <<>>
    /\ durationMinutes = 0
    /\ selected = <<>>
    /\ reselected = <<>>
    /\ accommodates = FALSE
    /\ assessmentResults = <<>>
    /\ therapyResults = <<>>
    /\ CalendarIdle
    /\ ParallelIdle
    /\ HeapIdle
    /\ CountIdle
    /\ pc = "search"

NextAssess == CallFindAssessmentSlots

SpecAssess == InitAssess /\ [][NextAssess]_vars

----------------------------------------------------------------------------
(* Both searches over a roster *)

\* a clinician with the given coverage
Covering(clinician, states, insurances) ==
    [clinician EXCEPT !.states = states, !.insurances = insurances]

\* the six slots of the reference fixture
ReferenceSlots ==
    <<Slot(At(0, 12, 0), 90), Slot(At(0, 12, 15), 90), Slot(At(2, 12, 0), 90),
      Slot(At(2, 15, 0), 90), Slot(At(3, 15, 0), 90), Slot(At(9, 12, 15), 90)>>

\* the psychologist of the reference fixture
testClinician1 ==
    Covering(Clinician("test-clinician-1", "PSYCHOLOGIST", 3, 10, ReferenceSlots, <<>>),
             <<"NY">>, <<"AETNA">>)

\* two slots 11 days apart
testClinician2 ==
    Covering(Clinician("test-clinician-2", "PSYCHOLOGIST", 3, 10,
                       <<Slot(At(0, 10, 0), 90), Slot(At(11, 10, 0), 90)>>, <<>>),
             <<"NY">>, <<"AETNA">>)

\* two slots on one day and one on the next
testClinician3 ==
    Covering(Clinician("test-clinician-3", "PSYCHOLOGIST", 3, 10,
                       <<Slot(At(0, 10, 0), 90), Slot(At(0, 14, 0), 90),
                         Slot(At(1, 10, 0), 90)>>, <<>>),
             <<"NY">>, <<"AETNA">>)

therapist ==
    Covering(Clinician("therapist-123", "THERAPIST", 6, 25,
                       <<Slot(At(0, 14, 0), 60), Slot(At(1, 10, 0), 60),
                         Slot(At(1, 15, 0), 60), Slot(At(2, 9, 0), 60),
                         Slot(At(3, 16, 0), 60)>>, <<>>),
             <<"NY", "NJ", "CT">>, <<"AETNA", "UNITED", "BCBS">>)

TwoAssessmentSlots == <<Slot(At(0, 12, 0), 90), Slot(At(2, 12, 0), 90)>>

\* a psychologist serving the patient's state but not the insurance
psychologistOtherInsurance ==
    Covering(Clinician("psychologist-insurance", "PSYCHOLOGIST", 2, 8,
                       TwoAssessmentSlots, <<>>),
             <<"NY", "CA">>, <<"CIGNA", "BCBS">>)

\* a psychologist accepting the patient's insurance but not serving the state
psychologistOtherState ==
    Covering(Clinician("psychologist-state", "PSYCHOLOGIST", 2, 8,
                       TwoAssessmentSlots, <<>>),
             <<"CA", "FL">>, <<"AETNA", "CIGNA">>)

\* a psychologist whose first slot day is at its daily limit
psychologistFullDay ==
    Clinician("psychologist-full", "PSYCHOLOGIST", 1, 8, TwoAssessmentSlots,
              <<Appointment(At(0, 10, 0), "UPCOMING")>>)

\* a therapist accepting the patient's insurance but not serving the state
therapistOtherState ==
    Covering(Clinician("therapist-state", "THERAPIST", 5, 20,
                       <<Slot(At(0, 12, 0), 60), Slot(At(0, 13, 0), 60)>>, <<>>),
             <<"CA", "FL">>, <<"AETNA", "CIGNA">>)

\* a therapist serving the patient's state but not the insurance
therapistOtherInsurance ==
    Covering(Clinician("therapist-insurance", "THERAPIST", 5, 20,
                       <<Slot(At(0, 12, 0), 60), Slot(At(0, 13, 0), 60)>>, <<>>),
             <<"NY", "CA">>, <<"CIGNA", "BCBS">>)

\* a therapist whose only slot day is at its daily limit
therapistFullDay ==
    Clinician("therapist-full", "THERAPIST", 1, 20, <<Slot(At(0, 12, 0), 60)>>,
              <<Appointment(At(0, 10, 0), "UPCOMING")>>)

RosterPool ==
    {testClinician1, testClinician2, testClinician3, therapist,
     psychologistOtherInsurance, psychologistOtherState, psychologistFullDay,
     therapistOtherState, therapistOtherInsurance, therapistFullDay}

Patients == {[state |-> "NY", insurance |-> "AETNA"], [state |-> "CA", insurance |-> "CIGNA"]}

InitRoster ==
    /\ clinicians \in SeqsUpTo(RosterPool, MaxRoster)
    /\ patient \in Patients
    /\ proposed = <<>>
    /\ dates = <<>>
    /\ durationMinutes = 0
    /\ selected = <<>>
    /\ reselected = <<>>
    /\ accommodates = FALSE
    /\ assessmentResults = <<>>
    /\ therapyResults = <<>>
    /\ CalendarIdle
    /\ ParallelIdle
    /\ HeapIdle
    /\ CountIdle
    /\ pc = "search"

NextRoster == CallFindAssessmentSlots \/ CallFindTherapySlots

SpecRoster == InitRoster /\ [][NextRoster]_vars

----------------------------------------------------------------------------
(* The therapy search over one eligible therapist *)

\* overlapping and back-to-back slots on Monday, slots either side of the
\* midnight after it, a slot in the next week, and a 90-minute slot
TherapySlotPool ==
    {Slot(At(0, 12, 0), 60), Slot(At(0, 12, 30), 60), Slot(At(0, 13, 0), 60),
     Slot(At(0, 23, 30), 60), Slot(At(1, 0, 0), 60), Slot(At(7, 9, 0), 60)}

TherapyAppointments ==
    {<<>>,
     <<Appointment(At(0, 10, 0), "UPCOMING")>>,
     <<Appointment(At(7, 10, 0), "OCCURRED")>>,
     <<Appointment(At(0, 10, 0), "CANCELLED")>>,
     <<Appointment(At(0, 10, 0), "UPCOMING"), Appointment(At(0, 16, 0), "LATE_CANCELLATION")>>}

InitTherapy ==
    /\ \E slots \in SeqsUpTo(TherapySlotPool, MaxSlots),
          appts \in TherapyAppointments,
          d \in 1..MaxDaily, w \in 1..MaxWeekly :
          clinicians = <<Clinician("therapist-1", "THERAPIST", d, w, slots, appts)>>
    /\ patient = NoPatient
    /\ proposed = <<>>
    /\ dates = <<>>
    /\ durationMinutes = 0
    /\ selected = <<>>
    /\ reselected = <<>>
    /\ accommodates = FALSE
    /\ assessmentResults = <<>>
    /\ therapyResults = <<>>
    /\ CalendarIdle
    /\ ParallelIdle
    /\ HeapIdle
    /\ CountIdle
    /\ pc = "search"

NextTherapy == CallFindAssessmentSlots \/ CallFindTherapySlots

SpecTherapy == InitTherapy /\ [][NextTherapy]_vars

----------------------------------------------------------------------------
(* The therapy search over one eligible therapist with slots on two days *)

FilterSlotPool ==
    {Slot(At(0, 12, 0), 60), Slot(At(0, 12, 30), 60), Slot(At(0, 13, 0), 60),
     Slot(At(1, 9, 0), 60)}

FilterAppointments ==
    {<<>>,
     <<Appointment(At(0, 10, 0), "UPCOMING")>>,
     <<Appointment(At(0, 10, 0), "CANCELLED"), Appointment(At(1, 16, 0), "OCCURRED")>>}

InitFilter ==
    /\ \E slots \in SeqsUpTo(FilterSlotPool, MaxSlots),
          appts \in FilterAppointments,
          d \in 1..MaxDaily, w \in 1..MaxWeekly :
          clinicians = <<Clinician("therapist-1", "THERAPIST", d, w, slots, appts)>>
    /\ patient = NoPatient
    /\ proposed = <<>>
    /\ dates = <<>>
    /\ durationMinutes = 0
    /\ selected = <<>>
    /\ reselected = <<>>
    /\ accommodates = FALSE
    /\ assessmentResults = <<>>
    /\ therapyResults = <<>>
    /\ CalendarIdle
    /\ ParallelIdle
    /\ HeapIdle
    /\ CountIdle
    /\ pc = "search"

NextFilter == CallFindAssessmentSlots \/ CallFindTherapySlots

SpecFilter == InitFilter /\ [][NextFilter]_vars

----------------------------------------------------------------------------
(* The optimizer and the searches over arguments held by reference *)

\* availableSlots out of order, of both lengths
UnorderedSlots ==
    <<Slot(At(2, 12, 0), 90), Slot(At(0, 13, 0), 60), Slot(At(0, 12, 0), 90),
      Slot(At(1, 9, 0), 60), Slot(At(0, 12, 30), 60)>>

\* appointments out of order
UnorderedAppointments ==
    <<Appointment(At(2, 9, 0), "UPCOMING"), Appointment(At(0, 9, 0), "OCCURRED")>>

HeapClinicianPool ==
    { testClinician1, therapist,
      Covering(Clinician("psychologist-unordered", "PSYCHOLOGIST", 2, 3,
                         UnorderedSlots, UnorderedAppointments),
               <<"NY">>, <<"AETNA">>),
      Covering(Clinician("therapist-unordered", "THERAPIST", 2, 3,
                         UnorderedSlots, UnorderedAppointments),
               <<"NY">>, <<"AETNA">>) }

\* the roster as the caller holds it: array 1 is the roster, arrays 2i and
\* 2i + 1 the availableSlots and the appointments of its i-th clinician
Store(cs) ==
    <<[i \in DOMAIN cs |-> [cs[i] EXCEPT !.availableSlots = 2 * i,
                                         !.appointments = 2 * i + 1]]>>
    \o [r \in 1..(2 * Len(cs)) |->
            IF r % 2 = 1 THEN cs[(r + 1) \div 2].availableSlots
                         ELSE cs[r \div 2].appointments]

InitHeap ==
    /\ dates = <<>>
    /\ selected = <<>>
    /\ reselected = <<>>
    /\ clinicians = <<>>
    /\ proposed = <<>>
    /\ accommodates = FALSE
    /\ assessmentResults = <<>>
    /\ therapyResults = <<>>
    /\ CalendarIdle
    /\ ParallelIdle
    /\ CountIdle
    /\ argument = 1
    /\ returned = 0
    /\ \/ /\ pc = "dates held"
          /\ \E ds \in SeqsUpTo(OptInstants, MaxDates) : heap = <<ds>>
          /\ durationMinutes \in Durations
          /\ patient = NoPatient
       \/ /\ pc = "roster held"
          /\ \E cs \in SeqsUpTo(HeapClinicianPool, MaxRoster) : heap = Store(cs)
          /\ durationMinutes = 0
          /\ patient \in Patients

\* optimizeSlots(dates, durationMinutes) on the caller's array
CallOptimizeSlotsOnHeap ==
    /\ pc = "dates held"
    /\ \E out \in {optimizeSlotsOnHeap(heap, argument, durationMinutes)} :
          heap' = out.heap /\ returned' = out.ref
    /\ pc' = "dates optimized"
    /\ UNCHANGED <<dates, durationMinutes, selected, reselected, patient, clinicians,
                   proposed, accommodates, assessmentResults, therapyResults,
                   calendarVars, parallelVars, argument, countVars>>

\* findAssessmentSlots(patient, clinicians) on the caller's roster
CallFindAssessmentSlotsOnHeap ==
    /\ pc = "roster held"
    /\ \E out \in {findAssessmentSlotsOnHeap(heap, patient, argument)} :
          heap' = out.heap /\ returned' = out.ref
    /\ pc' = "roster assessed"
    /\ UNCHANGED <<dates, durationMinutes, selected, reselected, patient, clinicians,
                   proposed, accommodates, assessmentResults, therapyResults,
                   calendarVars, parallelVars, argument, countVars>>

\* findTherapySlots(patient, clinicians) on the caller's roster
CallFindTherapySlotsOnHeap ==
    /\ pc = "roster assessed"
    /\ \E out \in {findTherapySlotsOnHeap(heap, patient, argument)} :
          heap' = out.heap /\ returned' = out.ref
    /\ pc' = "roster listed"
    /\ UNCHANGED <<dates, durationMinutes, selected, reselected, patient, clinicians,
                   proposed, accommodates, assessmentResults, therapyResults,
                   calendarVars, parallelVars, argument, countVars>>

NextHeap ==
    \/ CallOptimizeSlotsOnHeap
    \/ CallFindAssessmentSlotsOnHeap
    \/ CallFindTherapySlotsOnHeap

SpecHeap == InitHeap /\ [][NextHeap]_vars

----------------------------------------------------------------------------
(* The calendar utilities, called on their own *)

\* Mondays whose week ends in the next year, in the next month after a leap
\* day, and in the next month: 2022-12-26, 2024-02-26, 2024-08-26
CalMondays == {DaysFromCivil(2022, 12, 26), DaysFromCivil(2024, 2, 26),
               DaysFromCivil(2024, 8, 26)}

CalTimes == {0, 12 * 60, 23 * 60 + 59}

CalInstants ==
    {(monday + k) * DayMinutes + time :
         monday \in CalMondays, k \in 0..MaxSpan, time \in CalTimes}

InitCal ==
    /\ instant \in CalInstants
    /\ startOfDay = 0
    /\ startOfWeek = 0
    /\ dates = <<>>
    /\ durationMinutes = 0
    /\ selected = <<>>
    /\ reselected = <<>>
    /\ patient = NoPatient
    /\ clinicians = <<>>
    /\ proposed = <<>>
    /\ accommodates = FALSE
    /\ assessmentResults = <<>>
    /\ therapyResults = <<>>
    /\ ParallelIdle
    /\ HeapIdle
    /\ CountIdle
    /\ pc = "instant"

\* getStartOfDay(date)
CallGetStartOfDay ==
    /\ pc = "instant"
    /\ startOfDay' = getStartOfDay(instant)
    /\ pc' = "day"
    /\ UNCHANGED <<dates, durationMinutes, selected, reselected, patient, clinicians,
                   proposed, accommodates, assessmentResults, therapyResults,
                   instant, startOfWeek, parallelVars, heapVars, countVars>>

\* getStartOfWeek(date)
CallGetStartOfWeek ==
    /\ pc = "day"
    /\ startOfWeek' = getStartOfWeek(instant)
    /\ pc' = "week"
    /\ UNCHANGED <<dates, durationMinutes, selected, reselected, patient, clinicians,
                   proposed, accommodates, assessmentResults, therapyResults,
                   instant, startOfDay, parallelVars, heapVars, countVars>>

NextCal == CallGetStartOfDay \/ CallGetStartOfWeek

SpecCal == InitCal /\ [][NextCal]_vars

----------------------------------------------------------------------------
(* The two counters, called on their own *)

\* the dates the counters are asked about: midnights and noons of the days
\* around the appointments of CapAppointmentPool
CountDates == {At(d, hh, 0) : d \in {-7, -1, 0, 1, 6, 7}, hh \in {0, 12}}

InitCount ==
    /\ \E appts \in CapAppointments :
          clinicians = <<Clinician("psychologist-1", "PSYCHOLOGIST", 1, 1, <<>>, appts)>>
    /\ instant \in CountDates
    /\ startOfDay = 0
    /\ startOfWeek = 0
    /\ dates = <<>>
    /\ durationMinutes = 0
    /\ selected = <<>>
    /\ reselected = <<>>
    /\ patient = NoPatient
    /\ proposed = <<>>
    /\ accommodates = FALSE
    /\ assessmentResults = <<>>
    /\ therapyResults = <<>>
    /\ ParallelIdle
    /\ HeapIdle
    /\ CountIdle
    /\ pc = "count"

\* getAppointmentsOnDay(clinician, date)
CallGetAppointmentsOnDay ==
    /\ pc = "count"
    /\ countOnDay' = getAppointmentsOnDay(clinicians[1], instant)
    /\ pc' = "day counted"
    /\ UNCHANGED <<dates, durationMinutes, selected, reselected, patient, clinicians,
                   proposed, accommodates, assessmentResults, therapyResults,
                   calendarVars, parallelVars, heapVars, countInWeek>>

\* getAppointmentsInWeek(clinician, date)
CallGetAppointmentsInWeek ==
    /\ pc = "day counted"
    /\ countInWeek' = getAppointmentsInWeek(clinicians[1], instant)
    /\ pc' = "week counted"
    /\ UNCHANGED <<dates, durationMinutes, selected, reselected, patient, clinicians,
                   proposed, accommodates, assessmentResults, therapyResults,
                   calendarVars, parallelVars, heapVars, countOnDay>>

NextCount == CallGetAppointmentsOnDay \/ CallGetAppointmentsInWeek

SpecCount == InitCount /\ [][NextCount]_vars

----------------------------------------------------------------------------
(* The loop bodies of the searches run per clinician, in any order, next to *)
(* the sequential searches                                                   *)

ParallelPool ==
    {testClinician1, testClinician3, psychologistOtherState, therapist, therapistFullDay}

InitParallel ==
    /\ clinicians \in SeqsUpTo(ParallelPool, MaxRoster)
    /\ patient \in Patients
    /\ pending = {"assessment", "therapy"} \X DOMAIN clinicians
    /\ merged = NoEntries
    /\ proposed = <<>>
    /\ dates = <<>>
    /\ durationMinutes = 0
    /\ selected = <<>>
    /\ reselected = <<>>
    /\ accommodates = FALSE
    /\ assessmentResults = <<>>
    /\ therapyResults = <<>>
    /\ CalendarIdle
    /\ HeapIdle
    /\ CountIdle
    /\ pc = "search"

\* the loop body of findAssessmentSlots for one clinician still to be evaluated
EvaluateAssessment ==
    \E i \in DOMAIN clinicians :
        /\ <<"assessment", i>> \in pending
        /\ merged' = [merged EXCEPT
                         !.assessment = AssessClinician(patient, clinicians[i], @)]
        /\ pending' = pending \ {<<"assessment", i>>}
        /\ UNCHANGED <<dates, durationMinutes, selected, reselected, patient, clinicians,
                       proposed, accommodates, assessmentResults, therapyResults,
                       calendarVars, heapVars, countVars, pc>>

\* the loop body of findTherapySlots for one clinician still to be evaluated
EvaluateTherapy ==
    \E i \in DOMAIN clinicians :
        /\ <<"therapy", i>> \in pending
        /\ merged' = [merged EXCEPT
                         !.therapy = TherapyClinician(patient, clinicians[i], @)]
        /\ pending' = pending \ {<<"therapy", i>>}
        /\ UNCHANGED <<dates, durationMinutes, selected, reselected, patient, clinicians,
                       proposed, accommodates, assessmentResults, therapyResults,
                       calendarVars, heapVars, countVars, pc>>

NextParallel ==
    \/ CallFindAssessmentSlots
    \/ CallFindTherapySlots
    \/ EvaluateAssessment
    \/ EvaluateTherapy

SpecParallel == InitParallel /\ [][NextParallel]_vars

----------------------------------------------------------------------------
(* The loops of the searches, one clinician per step, in roster order *)

\* the loop ending the search when an iteration leaves the results as they were
AfterIteration_SkipEndsSearch(pnd, search, i, before, after) ==
    IF after = before THEN {e \in pnd : e[1] # search}
    ELSE pnd \ {<<search, i>>}

\* for (const clinician of clinicians): after the body of iteration i, left by
\* `continue` or at its end, the clinicians after i are still to come
AfterIteration(pnd, search, i, before, after) == pnd \ {<<search, i>>}

\* the clinician the loop of the search takes next
NextIndex(pnd, search) ==
    CHOOSE i \in {e[2] : e \in {x \in pnd : x[1] = search}} :
        \A e \in pnd : e[1] = search => i <= e[2]

\* clinicians that are skipped for their type, their coverage, their slots or
\* their days, and clinicians that are not
\* a psychologist with a single 90-minute slot
psychologistOneSlot ==
    Clinician("psychologist-one-slot", "PSYCHOLOGIST", 2, 8,
              <<Slot(At(0, 12, 0), 90), Slot(At(1, 12, 0), 60)>>, <<>>)

LoopPool ==
    {testClinician2, psychologistOtherInsurance, psychologistOtherState,
     psychologistFullDay, psychologistOneSlot, therapistOtherState, therapistFullDay}

InitLoop ==
    /\ clinicians \in SeqsUpTo(LoopPool, MaxRoster)
    /\ patient \in Patients
    /\ pending = {"assessment", "therapy"} \X DOMAIN clinicians
    /\ merged = NoEntries
    /\ proposed = <<>>
    /\ dates = <<>>
    /\ durationMinutes = 0
    /\ selected = <<>>
    /\ reselected = <<>>
    /\ accommodates = FALSE
    /\ assessmentResults = <<>>
    /\ therapyResults = <<>>
    /\ CalendarIdle
    /\ HeapIdle
    /\ CountIdle
    /\ pc = "loop"

\* one iteration of the loop of findAssessmentSlots
IterateAssessment ==
    /\ pc = "loop"
    /\ \E e \in pending : e[1] = "assessment"
    /\ \E i \in {NextIndex(pending, "assessment")} :
        \E after \in {AssessClinician(patient, clinicians[i], merged.assessment)} :
            /\ merged' = [merged EXCEPT !.assessment = after]
            /\ pending' = AfterIteration(pending, "assessment", i, merged.assessment, after)
    /\ UNCHANGED <<dates, durationMinutes, selected, reselected, patient, clinicians,
                   proposed, accommodates, assessmentResults, therapyResults,
                   calendarVars, heapVars, countVars, pc>>

\* one iteration of the loop of findTherapySlots
IterateTherapy ==
    /\ pc = "loop"
    /\ \E e \in pending : e[1] = "therapy"
    /\ \E i \in {NextIndex(pending, "therapy")} :
        \E after \in {TherapyClinician(patient, clinicians[i], merged.therapy)} :
            /\ merged' = [merged EXCEPT !.therapy = after]
            /\ pending' = AfterIteration(pending, "therapy", i, merged.therapy, after)
    /\ UNCHANGED <<dates, durationMinutes, selected, reselected, patient, clinicians,
                   proposed, accommodates, assessmentResults, therapyResults,
                   calendarVars, heapVars, countVars, pc>>

NextLoop == IterateAssessment \/ IterateTherapy

SpecLoop == InitLoop /\ [][NextLoop]_vars

\* the loop has taken one more clinician
LoopAdvances == \E e \in pending : pending' = pending \ {e}

\* the loops are synchronous code over a finite array: while clinicians remain,
\* the next iteration runs
SpecLoopFair == SpecLoop /\ WF_pending(LoopAdvances)

----------------------------------------------------------------------------
(* The assessment search over one psychologist whose slots lie up to eight *)
(* days apart, at different times of day                                   *)

PairSlotPool ==
    {Slot(At(0, 9, 0), 90), Slot(At(0, 15, 0), 90), Slot(At(7, 12, 0), 90),
     Slot(At(8, 9, 0), 90), Slot(At(7, 12, 0), 60)}

PairAppointments ==
    {<<>>,
     <<Appointment(At(0, 10, 0), "UPCOMING")>>,
     <<Appointment(At(7, 10, 0), "OCCURRED")>>,
     <<Appointment(At(0, 10, 0), "UPCOMING"), Appointment(At(7, 10, 0), "CANCELLED")>>}

InitPairs ==
    /\ \E slots \in SeqsUpTo(PairSlotPool, MaxSlots),
          appts \in PairAppointments,
          d \in 1..MaxDaily, w \in 1..MaxWeekly :
          clinicians = <<Clinician("psychologist-1", "PSYCHOLOGIST", d, w, slots, appts)>>
    /\ patient = NoPatient
    /\ proposed = <<>>
    /\ dates = <<>>
    /\ durationMinutes = 0
    /\ selected = <<>>
    /\ reselected = <<>>
    /\ accommodates = FALSE
    /\ assessmentResults = <<>>
    /\ therapyResults = <<>>
    /\ CalendarIdle
    /\ ParallelIdle
    /\ HeapIdle
    /\ CountIdle
    /\ pc = "search"

NextPairs == CallFindAssessmentSlots

SpecPairs == InitPairs /\ [][NextPairs]_vars

----------------------------------------------------------------------------
(* The optimizer over 15-minute offsets spanning a 90-minute window *)

\* 12:00, 12:15, ..., 13:30 of 2024-08-19
WindowInstants == {At(0, 12, 15 * k) : k \in 0..6}

\* the instants of S, earliest first
RECURSIVE AscendingList(_)
AscendingList(S) ==
    IF S = {} THEN <<>>
    ELSE LET m == CHOOSE x \in S : \A y \in S : x <= y
         IN  <<m>> \o AscendingList(S \ {m})

Reverse(s) == [i \in 1..Len(s) |-> s[Len(s) + 1 - i]]

\* every selection of the offsets, earliest first or latest first
WindowLists ==
    {AscendingList(S) : S \in SUBSET WindowInstants}
        \cup {Reverse(AscendingList(S)) : S \in SUBSET WindowInstants}

InitWindow ==
    /\ dates \in WindowLists
    /\ durationMinutes \in Durations
    /\ selected = <<>>
    /\ reselected = <<>>
    /\ patient = NoPatient
    /\ clinicians = <<>>
    /\ proposed = <<>>
    /\ accommodates = FALSE
    /\ assessmentResults = <<>>
    /\ therapyResults = <<>>
    /\ CalendarIdle
    /\ ParallelIdle
    /\ HeapIdle
    /\ CountIdle
    /\ pc = "start"

NextWindow == CallOptimizeSlots \/ CallOptimizeSlotsAgain

SpecWindow == InitWindow /\ [][NextWindow]_vars

----------------------------------------------------------------------------
(* The optimizer and the therapy search over back-to-back instants: either *)
(* optimizeSlots is called on the instants, or findTherapySlots on a       *)
(* therapist whose 60-minute slots start at them                           *)

\* 12:00, 12:30, 13:00 and 14:00 of 2024-08-19
AdjacentInstants == {At(0, 12, 0), At(0, 12, 30), At(0, 13, 0), At(0, 14, 0)}

AdjacentAppointments == {<<>>, <<Appointment(At(0, 10, 0), "UPCOMING")>>}

InitAdjacent ==
    /\ \/ /\ dates \in SeqsUpTo(AdjacentInstants, MaxDates)
          /\ durationMinutes \in {30, 60, 90}
          /\ clinicians = <<>>
          /\ pc = "start"
       \/ /\ \E ds \in SeqsUpTo(AdjacentInstants, MaxDates),
                appts \in AdjacentAppointments,
                d \in 1..MaxDaily, w \in 1..MaxWeekly :
                clinicians = <<Clinician("therapist-1", "THERAPIST", d, w,
                                         [i \in DOMAIN ds |-> Slot(ds[i], 60)], appts)>>
          /\ dates = <<>>
          /\ durationMinutes = 0
          /\ pc = "search"
    /\ selected = <<>>
    /\ reselected = <<>>
    /\ patient = NoPatient
    /\ proposed = <<>>
    /\ accommodates = FALSE
    /\ assessmentResults = <<>>
    /\ therapyResults = <<>>
    /\ CalendarIdle
    /\ ParallelIdle
    /\ HeapIdle
    /\ CountIdle

NextAdjacent ==
    \/ CallOptimizeSlots
    \/ CallOptimizeSlotsAgain
    \/ CallFindAssessmentSlots
    \/ CallFindTherapySlots

SpecAdjacent == InitAdjacent /\ [][NextAdjacent]_vars

----------------------------------------------------------------------------
(* Both searches over a roster of clinicians whose slots have mixed lengths *)

\* lists of slots of 30, 60 and 90 minutes; the first has one instant at two
\* lengths
MixedSlotLists ==
    <<<<Slot(At(0, 12, 0), 90), Slot(At(0, 12, 0), 60), Slot(At(1, 12, 0), 60),
        Slot(At(2, 12, 0), 90)>>,
      <<Slot(At(0, 9, 0), 60), Slot(At(1, 9, 0), 90), Slot(At(3, 9, 0), 90),
        Slot(At(3, 11, 0), 60)>>,
      <<Slot(At(0, 14, 0), 60), Slot(At(1, 14, 0), 60)>>,
      <<Slot(At(0, 15, 0), 90), Slot(At(2, 15, 0), 90)>>,
      <<Slot(At(0, 10, 0), 30), Slot(At(1, 10, 0), 30), Slot(At(1, 16, 0), 60)>>>>

MixedIds ==
    [PSYCHOLOGIST |-> <<"psychologist-1", "psychologist-2", "psychologist-3",
                        "psychologist-4", "psychologist-5">>,
     THERAPIST |-> <<"therapist-1", "therapist-2", "therapist-3", "therapist-4",
                     "therapist-5">>]

MixedPool ==
    {Clinician(MixedIds[type][n], type, 2, 8, MixedSlotLists[n], <<>>) :
        type \in {"PSYCHOLOGIST", "THERAPIST"}, n \in DOMAIN MixedSlotLists}

InitMixed ==
    /\ clinicians \in SeqsUpTo(MixedPool, MaxRoster)
    /\ patient = NoPatient
    /\ proposed = <<>>
    /\ dates = <<>>
    /\ durationMinutes = 0
    /\ selected = <<>>
    /\ reselected = <<>>
    /\ accommodates = FALSE
    /\ assessmentResults = <<>>
    /\ therapyResults = <<>>
    /\ CalendarIdle
    /\ ParallelIdle
    /\ HeapIdle
    /\ CountIdle
    /\ pc = "search"

NextMixed == CallFindAssessmentSlots \/ CallFindTherapySlots

SpecMixed == InitMixed /\ [][NextMixed]_vars

----------------------------------------------------------------------------
(* The capacity check over loads and proposals that grow and shrink *)

\* a consuming and an exempt appointment on Monday, a consuming one on the
\* Monday after
LoadAppointmentPool ==
    {Appointment(At(0, 10, 0), "UPCOMING"), Appointment(At(0, 16, 0), "CANCELLED"),
     Appointment(At(7, 10, 0), "OCCURRED")}

\* Monday 12:00, Sunday 15:00 of the same week, Monday 00:00 of the next week
LoadProposedInstants == {At(0, 12, 0), At(6, 15, 0), At(7, 0, 0)}

InitLoad ==
    /\ \E appts \in SeqsUpTo(LoadAppointmentPool, MaxAppointments),
          d \in 0..MaxDaily, w \in 0..MaxWeekly :
          clinicians = <<Clinician("psychologist-1", "PSYCHOLOGIST", d, w, <<>>, appts)>>
    /\ proposed \in SeqsUpTo(LoadProposedInstants, MaxProposed)
    /\ patient = NoPatient
    /\ dates = <<>>
    /\ durationMinutes = 0
    /\ selected = <<>>
    /\ reselected = <<>>
    /\ accommodates = FALSE
    /\ assessmentResults = <<>>
    /\ therapyResults = <<>>
    /\ CalendarIdle
    /\ ParallelIdle
    /\ HeapIdle
    /\ CountIdle
    /\ pc = "start"

NextLoad == CallCanAccommodate

SpecLoad == InitLoad /\ [][NextLoad]_vars

----------------------------------------------------------------------------
(* Properties of the optimizer *)

Occurrences(s, v) == Cardinality({i \in DOMAIN s : s[i] = v})

Range(s) == {s[i] : i \in DOMAIN s}

\* every instant occurs in sub at most as often as in s
SubCollection(sub, s) == \A v \in Range(sub) : Occurrences(sub, v) <= Occurrences(s, v)

\* the entries of s at the indices I are pairwise non-overlapping under D
NonOverlappingAt(s, I, D) ==
    \A i, j \in I : (i # j /\ s[i] <= s[j]) => s[j] >= s[i] + D

NonOverlapping(s, D) == NonOverlappingAt(s, DOMAIN s, D)

\* the size of the largest non-overlapping sub-collection of s under D
MaxNonOverlapping(s, D) ==
    LET sizes == {Cardinality(I) : I \in {J \in SUBSET DOMAIN s : NonOverlappingAt(s, J, D)}}
    IN  CHOOSE n \in sizes : \A m \in sizes : m <= n

\* C1: optimizeSlots(S, D) returns a sub-collection of S whose instants are
\* pairwise non-overlapping under D: for returned a before b, b >= a + D.
C1_NonOverlapping ==
    pc # "start" =>
        /\ SubCollection(selected, dates)
        /\ NonOverlapping(selected, durationMinutes)

\* an input with overlapping instants from which two or more were selected
C1_Witness ==
    /\ pc = "optimized"
    /\ durationMinutes > 0
    /\ ~NonOverlapping(dates, durationMinutes)
    /\ Len(selected) >= 2

\* C2: the number of instants optimizeSlots returns is the maximum size of a
\* pairwise non-overlapping sub-collection of S; empty input gives empty output.
C2_MaximumCardinality ==
    pc # "start" =>
        /\ Len(selected) = MaxNonOverlapping(dates, durationMinutes)
        /\ (dates = <<>> => selected = <<>>)

\* an unsorted input where some, but not all, instants were selected
C2_Witness ==
    /\ pc = "optimized"
    /\ \E i \in DOMAIN dates : i > 1 /\ dates[i] < dates[i - 1]
    /\ Len(selected) >= 2
    /\ Len(selected) < Len(dates)

\* C3: optimizeSlots is idempotent, optimizeSlots(optimizeSlots(S, D), D) =
\* optimizeSlots(S, D), and an input that is already pairwise non-overlapping
\* under D is returned in full.
C3_Idempotent ==
    /\ pc = "reoptimized" => reselected = selected
    /\ (pc # "start" /\ NonOverlapping(dates, durationMinutes)) =>
            /\ Len(selected) = Len(dates)
            /\ SubCollection(dates, selected)

\* the second call has returned on a result that dropped overlapping instants
C3_Witness ==
    /\ pc = "reoptimized"
    /\ durationMinutes > 0
    /\ Len(reselected) >= 2
    /\ Len(reselected) < Len(dates)

----------------------------------------------------------------------------
(* Properties of the capacity accountant *)

Consuming == {"UPCOMING", "OCCURRED", "LATE_CANCELLATION"}

Exempt == {"CANCELLED", "NO_SHOW", "RE_SCHEDULED"}

SameDay(a, b) == getStartOfDay(a) = getStartOfDay(b)

SameWeek(a, b) == getStartOfWeek(a) = getStartOfWeek(b)

\* the capacity-consuming appointments of c on the day / in the week of t
ConsumingOnDay(c, t) ==
    Cardinality({i \in DOMAIN c.appointments :
                    /\ c.appointments[i].status \in Consuming
                    /\ SameDay(c.appointments[i].scheduledFor, t)})

ConsumingInWeek(c, t) ==
    Cardinality({i \in DOMAIN c.appointments :
                    /\ c.appointments[i].status \in Consuming
                    /\ SameWeek(c.appointments[i].scheduledFor, t)})

\* the proposed instants on the day / in the week of t
ProposedOnDay(P, t) == Cardinality({i \in DOMAIN P : SameDay(P[i], t)})

ProposedInWeek(P, t) == Cardinality({i \in DOMAIN P : SameWeek(P[i], t)})

\* the original statement of C4: with one proposed instant, maxDaily - 1
\* appointments on its day (maxWeekly - 1 in its week) means success, and
\* maxDaily on its day (maxWeekly in its week) means failure.
C4_Original ==
    (pc = "accommodated" /\ Len(proposed) = 1) =>
        LET c == clinicians[1]
            onDay == ConsumingOnDay(c, proposed[1])
            inWeek == ConsumingInWeek(c, proposed[1])
        IN  /\ onDay = c.maxDailyAppointments - 1 => accommodates
            /\ onDay = c.maxDailyAppointments => ~accommodates
            /\ inWeek = c.maxWeeklyAppointments - 1 => accommodates
            /\ inWeek = c.maxWeeklyAppointments => ~accommodates

\* C4 (amended): with one proposed instant, maxDailyAppointments - 1 consuming
\* appointments on its day is accepted when its week also has room for one
\* more, and maxDailyAppointments on its day is refused; likewise
\* maxWeeklyAppointments - 1 in its week is accepted when its day also has room
\* for one more, and maxWeeklyAppointments in its week is refused.
C4_CapacityBoundary ==
    (pc = "accommodated" /\ Len(proposed) = 1) =>
        LET c == clinicians[1]
            onDay == ConsumingOnDay(c, proposed[1])
            inWeek == ConsumingInWeek(c, proposed[1])
        IN  /\ (/\ onDay = c.maxDailyAppointments - 1
                /\ inWeek + 1 <= c.maxWeeklyAppointments) => accommodates
            /\ onDay = c.maxDailyAppointments => ~accommodates
            /\ (/\ inWeek = c.maxWeeklyAppointments - 1
                /\ onDay + 1 <= c.maxDailyAppointments) => accommodates
            /\ inWeek = c.maxWeeklyAppointments => ~accommodates

\* one more appointment was accepted on a day that it fills exactly
C4_Witness ==
    /\ pc = "accommodated"
    /\ Len(proposed) = 1
    /\ ConsumingOnDay(clinicians[1], proposed[1]) >= 1
    /\ ConsumingOnDay(clinicians[1], proposed[1]) = clinicians[1].maxDailyAppointments - 1
    /\ accommodates

\* the clinician without its capacity-exempt appointments
StripExempt(c) ==
    [c EXCEPT !.appointments = SelectSeq(@, LAMBDA apt : apt.status \in Consuming)]

StripExemptAll(cs) == [i \in DOMAIN cs |-> StripExempt(cs[i])]

\* what a search result offers, per clinician id
AssessmentOffers(results) ==
    [i \in DOMAIN results |-> <<results[i].clinician.id, results[i].availableSlotPairs>>]

TherapyOffers(results) ==
    [i \in DOMAIN results |-> <<results[i].clinician.id, results[i].availableSlots>>]

\* C5: CANCELLED, NO_SHOW and RE_SCHEDULED appointments never affect the
\* outcome of canAccommodate, nor what findAssessmentSlots and findTherapySlots
\* offer: the outcome is that of the same clinician with these appointments
\* removed (so adding, removing or moving them changes nothing).
C5_ExemptStatusesIgnored ==
    /\ pc = "accommodated" =>
          accommodates = canAccommodateAppointments(StripExempt(clinicians[1]), proposed)
    /\ pc \in {"assessed", "listed"} =>
          AssessmentOffers(assessmentResults) =
              AssessmentOffers(findAssessmentSlots(patient, StripExemptAll(clinicians)))
    /\ pc = "listed" =>
          TherapyOffers(therapyResults) =
              TherapyOffers(findTherapySlots(patient, StripExemptAll(clinicians)))

\* accepted on a day that the exempt appointments would have filled
C5_Witness ==
    /\ pc = "accommodated"
    /\ Len(proposed) = 1
    /\ accommodates
    /\ LET c == clinicians[1]
           exemptOnDay == Cardinality({i \in DOMAIN c.appointments :
                              /\ c.appointments[i].status \in Exempt
                              /\ SameDay(c.appointments[i].scheduledFor, proposed[1])})
       IN  exemptOnDay + 1 > c.maxDailyAppointments

\* the clinician with the status of appointment i replaced by status
WithStatus(c, i, status) == [c EXCEPT !.appointments[i].status = status]

\* C6: OCCURRED and LATE_CANCELLATION count exactly like UPCOMING: replacing
\* the status of an appointment by another of these three changes neither the
\* daily count, nor the weekly count, nor the outcome of canAccommodate.
C6_ConsumingStatusesAlike ==
    pc = "accommodated" =>
        LET c == clinicians[1] IN
        \A i \in DOMAIN c.appointments : \A status \in Consuming :
            c.appointments[i].status \in Consuming =>
                LET r == WithStatus(c, i, status) IN
                /\ \A t \in CapAppointmentInstants :
                      /\ getAppointmentsOnDay(r, t) = getAppointmentsOnDay(c, t)
                      /\ getAppointmentsInWeek(r, t) = getAppointmentsInWeek(c, t)
                /\ canAccommodateAppointments(r, proposed) = accommodates

\* refused because of appointments that are all OCCURRED or LATE_CANCELLATION
C6_Witness ==
    /\ pc = "accommodated"
    /\ ~accommodates
    /\ LET c == clinicians[1] IN
       /\ \E i \in DOMAIN c.appointments : c.appointments[i].status = "OCCURRED"
       /\ \E i \in DOMAIN c.appointments : c.appointments[i].status = "LATE_CANCELLATION"
       /\ canAccommodateAppointments([c EXCEPT !.appointments = <<>>], proposed)

\* C10: canAccommodate(clinician, P) is true exactly when, for every proposed
\* instant, the consuming appointments on its day plus the proposed instants on
\* that day are <= maxDailyAppointments, and the consuming appointments in its
\* week plus the proposed instants in that week are <= maxWeeklyAppointments.
C10_AllBounds ==
    pc = "accommodated" =>
        LET c == clinicians[1] IN
        accommodates <=>
            \A i \in DOMAIN proposed :
                /\ ConsumingOnDay(c, proposed[i]) + ProposedOnDay(proposed, proposed[i])
                       <= c.maxDailyAppointments
                /\ ConsumingInWeek(c, proposed[i]) + ProposedInWeek(proposed, proposed[i])
                       <= c.maxWeeklyAppointments

\* two proposed instants of one week on different days, every day bound
\* holding, refused by the week bound that either instant alone would meet
C10_Witness ==
    /\ pc = "accommodated"
    /\ ~accommodates
    /\ Len(proposed) = 2
    /\ SameWeek(proposed[1], proposed[2])
    /\ ~SameDay(proposed[1], proposed[2])
    /\ LET c == clinicians[1] IN
       /\ \A i \in DOMAIN proposed :
             ConsumingOnDay(c, proposed[i]) + 1 <= c.maxDailyAppointments
       /\ ConsumingInWeek(c, proposed[1]) + 1 = c.maxWeeklyAppointments

----------------------------------------------------------------------------
(* Properties of the assessment search *)

\* every emitted pair, with the clinician it is offered for
EmittedPairs ==
    UNION {{[clinician |-> r.clinician, pair |-> r.availableSlotPairs[k]] :
                k \in DOMAIN r.availableSlotPairs} : r \in Range(assessmentResults)}

\* the start instants of c's 90-minute slots
AssessmentInstants(c) ==
    {c.availableSlots[i].date : i \in {j \in DOMAIN c.availableSlots :
                                          c.availableSlots[j].length = 90}}

\* C7: every SlotPair emitted by findAssessmentSlots has its sessions on
\* different calendar days, no more than 7 calendar days apart.
C7_DifferentDaysWithinSeven ==
    pc = "assessed" =>
        \A e \in EmittedPairs :
            /\ getStartOfDay(e.pair.session1) # getStartOfDay(e.pair.session2)
            /\ getStartOfDay(e.pair.session2) - getStartOfDay(e.pair.session1)
                   <= 7 * DayMinutes

\* a pair exactly 7 days apart was emitted for a clinician that also has two
\* slots on one day and a slot 8 days after another
C7_Witness ==
    /\ pc = "assessed"
    /\ \E e \in EmittedPairs :
          /\ getStartOfDay(e.pair.session2) - getStartOfDay(e.pair.session1) = 7 * DayMinutes
          /\ \E a, b \in AssessmentInstants(e.clinician) :
                getStartOfDay(b) - getStartOfDay(a) = 8 * DayMinutes

\* C8: every SlotPair emitted by findAssessmentSlots has both sessions on days
\* where the clinician's consuming appointments plus 1 are <= maxDailyAppointments.
C8_DailyHeadroom ==
    pc = "assessed" =>
        \A e \in EmittedPairs : \A s \in {e.pair.session1, e.pair.session2} :
            ConsumingOnDay(e.clinician, s) + 1 <= e.clinician.maxDailyAppointments

\* pairs were emitted for a clinician that has a slot on a day at its limit
C8_Witness ==
    /\ pc = "assessed"
    /\ \E e \in EmittedPairs :
          \E a \in AssessmentInstants(e.clinician) :
              ConsumingOnDay(e.clinician, a) = e.clinician.maxDailyAppointments

\* the sessions of a pair in the week of t
SessionsInWeek(pair, t) ==
    (IF SameWeek(pair.session1, t) THEN 1 ELSE 0) + (IF SameWeek(pair.session2, t) THEN 1 ELSE 0)

\* C9: every SlotPair emitted by findAssessmentSlots respects the weekly limit
\* with both sessions counted, in each week that holds one or both sessions.
C9_WeeklyLimit ==
    pc = "assessed" =>
        \A e \in EmittedPairs : \A s \in {e.pair.session1, e.pair.session2} :
            ConsumingInWeek(e.clinician, s) + SessionsInWeek(e.pair, s)
                <= e.clinician.maxWeeklyAppointments

\* a pair straddling two weeks was emitted, filling its second week exactly,
\* while a pair inside the first week was refused for the week's limit
C9_Witness ==
    /\ pc = "assessed"
    /\ \E e \in EmittedPairs :
          /\ ~SameWeek(e.pair.session1, e.pair.session2)
          /\ ConsumingInWeek(e.clinician, e.pair.session2) + 1
                 = e.clinician.maxWeeklyAppointments
          /\ \E a, b \in AssessmentInstants(e.clinician) :
                /\ getStartOfDay(a) < getStartOfDay(b)
                /\ SameWeek(a, b)
                /\ ConsumingOnDay(e.clinician, a) + 1 <= e.clinician.maxDailyAppointments
                /\ ConsumingOnDay(e.clinician, b) + 1 <= e.clinician.maxDailyAppointments
                /\ ConsumingInWeek(e.clinician, a) + 2 > e.clinician.maxWeeklyAppointments

----------------------------------------------------------------------------
(* Properties of the searches over a roster *)

\* c serves the patient's state and accepts the patient's insurance
Covers(c, p) == p.state \in Range(c.states) /\ p.insurance \in Range(c.insurances)

\* C11: a clinician is in the result of findAssessmentSlots only if it is a
\* PSYCHOLOGIST, in the result of findTherapySlots only if it is a THERAPIST,
\* and in both only if its states contain the patient's state and its
\* insurances contain the patient's insurance.
C11_OnlyEligibleClinicians ==
    /\ pc \in {"assessed", "listed"} =>
          \A r \in Range(assessmentResults) :
              r.clinician.clinicianType = "PSYCHOLOGIST" /\ Covers(r.clinician, patient)
    /\ pc = "listed" =>
          \A r \in Range(therapyResults) :
              r.clinician.clinicianType = "THERAPIST" /\ Covers(r.clinician, patient)

\* a psychologist was offered while the roster's other psychologist, matching
\* only one of state and insurance, was not
C11_Witness ==
    /\ pc = "listed"
    /\ Len(assessmentResults) = 1
    /\ \E i \in DOMAIN clinicians :
          /\ clinicians[i].clinicianType = "PSYCHOLOGIST"
          /\ Len(clinicians[i].availableSlots) >= 2
          /\ patient.state \in Range(clinicians[i].states)
          /\ patient.insurance \notin Range(clinicians[i].insurances)

\* C12: every SlotPair emitted by findAssessmentSlots has session1 strictly
\* earlier than session2.
C12_Session1BeforeSession2 ==
    pc \in {"assessed", "listed"} =>
        \A e \in EmittedPairs : e.pair.session1 < e.pair.session2

\* pairs were emitted from slots that the clinician lists latest first
C12_Witness ==
    /\ pc = "assessed"
    /\ \E e \in EmittedPairs :
          LET slots == e.clinician.availableSlots IN
          /\ Len(slots) >= 2
          /\ \A i \in 2..Len(slots) : slots[i].date < slots[i - 1].date

\* the start instants of c's 60-minute slots
TherapyInstants(c) ==
    {c.availableSlots[i].date : i \in {j \in DOMAIN c.availableSlots :
                                          c.availableSlots[j].length = 60}}

\* c has two 90-minute slots on different days, at most 7 days apart, that it
\* can accommodate together
HasValidPair(c) ==
    \E a, b \in AssessmentInstants(c) :
        /\ getStartOfDay(a) < getStartOfDay(b)
        /\ getStartOfDay(b) - getStartOfDay(a) <= 7 * DayMinutes
        /\ canAccommodateAppointments(c, <<a, b>>)

\* c has a 60-minute slot that it can accommodate
HasValidSlot(c) ==
    \E a \in TherapyInstants(c) : canAccommodateAppointments(c, <<a>>)

\* C13: no result entry is empty, a clinician without a valid pair (slot) is
\* omitted, and an eligible clinician with a valid pair (slot) is included.
C13_NoEmptyEntries ==
    /\ pc \in {"assessed", "listed"} =>
          /\ \A r \in Range(assessmentResults) :
                Len(r.availableSlotPairs) > 0 /\ HasValidPair(r.clinician)
          /\ \A i \in DOMAIN clinicians :
                LET c == clinicians[i] IN
                (c.clinicianType = "PSYCHOLOGIST" /\ Covers(c, patient) /\ HasValidPair(c))
                    => \E r \in Range(assessmentResults) : r.clinician = c
    /\ pc = "listed" =>
          /\ \A r \in Range(therapyResults) :
                Len(r.availableSlots) > 0 /\ HasValidSlot(r.clinician)
          /\ \A i \in DOMAIN clinicians :
                LET c == clinicians[i] IN
                (c.clinicianType = "THERAPIST" /\ Covers(c, patient) /\ HasValidSlot(c))
                    => \E r \in Range(therapyResults) : r.clinician = c

\* of two eligible psychologists with two slots each, one was offered and the
\* one without a valid pair was left out
C13_Witness ==
    /\ pc = "listed"
    /\ Len(clinicians) = 2
    /\ Len(assessmentResults) = 1
    /\ \A i \in DOMAIN clinicians :
          /\ clinicians[i].clinicianType = "PSYCHOLOGIST"
          /\ Covers(clinicians[i], patient)
          /\ Cardinality(AssessmentInstants(clinicians[i])) >= 2

----------------------------------------------------------------------------
(* Properties of the therapy search *)

\* c's 60-minute slot instants on the day of t, in ascending order
TherapyDaySlots(c, t) ==
    LET kept == SelectSeq(c.availableSlots,
                          LAMBDA slot : slot.length = 60 /\ SameDay(slot.date, t))
        ds == [i \in DOMAIN kept |-> kept[i].date]
    IN  StableSort(ds, ds)

\* the instants that optimizeSlots selects on some day of c and that c can
\* accommodate on their own
ExpectedTherapySlots(c) ==
    {a \in TherapyInstants(c) :
        /\ a \in Range(optimizeSlots(TherapyDaySlots(c, a), 60))
        /\ canAccommodateAppointments(c, <<a>>)}

StrictlyAscending(s) == \A i \in DOMAIN s : i > 1 => s[i - 1] < s[i]

\* C14: for each eligible therapist, findTherapySlots lists exactly the
\* instants selected by optimizeSlots(daySlots, 60) on each calendar day's
\* 60-minute slots that individually satisfy canAccommodate, each once.
C14_TherapySlotsExact ==
    pc = "listed" =>
        \A i \in DOMAIN clinicians :
            LET c == clinicians[i]
                entries == {r \in Range(therapyResults) : r.clinician = c}
            IN  (c.clinicianType = "THERAPIST" /\ Covers(c, patient)) =>
                    IF ExpectedTherapySlots(c) = {} THEN entries = {}
                    ELSE /\ entries # {}
                         /\ \A r \in entries :
                               /\ Range(r.availableSlots) = ExpectedTherapySlots(c)
                               /\ StrictlyAscending(r.availableSlots)

\* two slots are listed on a day that has room for only one more appointment
C14_Witness ==
    /\ pc = "listed"
    /\ \E r \in Range(therapyResults) :
          \E i, j \in DOMAIN r.availableSlots :
              /\ i < j
              /\ SameDay(r.availableSlots[i], r.availableSlots[j])
              /\ ConsumingOnDay(r.clinician, r.availableSlots[i]) + 1
                     = r.clinician.maxDailyAppointments

----------------------------------------------------------------------------
(* The reference fixture *)

\* C15: for the reference fixture (six 90-minute slots, an eligible
\* psychologist without appointments, maxDailyAppointments = 3,
\* maxWeeklyAppointments = 10) findAssessmentSlots returns the clinician with
\* exactly 11 pairs, none pairing 2024-08-28 with a slot before 2024-08-21.
C15_ReferenceFixture ==
    (pc \in {"assessed", "listed"} /\ Covers(testClinician1, patient)) =>
        /\ \A r \in Range(assessmentResults) :
              r.clinician = testClinician1 =>
                  /\ Len(r.availableSlotPairs) = 11
                  /\ \A k \in DOMAIN r.availableSlotPairs :
                        LET pair == r.availableSlotPairs[k] IN
                        SameDay(pair.session2, At(9, 0, 0)) => pair.session1 >= At(2, 0, 0)
        /\ Cardinality({i \in DOMAIN assessmentResults :
                            assessmentResults[i].clinician = testClinician1})
               = Cardinality({i \in DOMAIN clinicians : clinicians[i] = testClinician1})
        /\ clinicians = <<testClinician1>> => Len(assessmentResults) = 1

\* the search has returned for a roster of the reference psychologist alone
C15_Witness ==
    /\ pc = "assessed"
    /\ clinicians = <<testClinician1>>
    /\ Covers(testClinician1, patient)
    /\ Len(assessmentResults) = 1
    /\ \E k \in DOMAIN assessmentResults[1].availableSlotPairs :
          SameDay(assessmentResults[1].availableSlotPairs[k].session2, At(9, 0, 0))

----------------------------------------------------------------------------
(* Properties of the arguments held by reference *)

\* the references of the lists an array of result entries points to
EntryLists(entries) ==
    {entries[i].availableSlotPairs :
         i \in {k \in DOMAIN entries : "availableSlotPairs" \in DOMAIN entries[k]}}
    \cup {entries[i].availableSlots :
         i \in {k \in DOMAIN entries : "availableSlotPairs" \notin DOMAIN entries[k]}}

\* C16: no call of optimizeSlots, findAssessmentSlots or findTherapySlots
\* mutates its inputs: every array that exists before the call (the dates
\* array, the roster, every availableSlots and appointments array) has the
\* same elements in the same order after it, and the result and the lists of
\* its entries are arrays allocated by the call.
C16_InputsNotMutated ==
    [][ /\ \A r \in DOMAIN heap : r \in DOMAIN heap' /\ heap'[r] = heap[r]
        /\ returned' \in DOMAIN heap' \ DOMAIN heap
        /\ pc' \in {"roster assessed", "roster listed"} =>
               /\ EntryLists(heap'[returned']) \subseteq DOMAIN heap' \ DOMAIN heap
               /\ \A i \in DOMAIN heap'[returned'] :
                     heap'[returned'][i].clinician \in Range(heap[argument])
      ]_vars

\* optimizeSlots has returned a non-empty selection for dates out of order
C16_Witness ==
    /\ pc = "dates optimized"
    /\ \E i, j \in DOMAIN heap[argument] : i < j /\ heap[argument][i] > heap[argument][j]
    /\ Len(heap[returned]) > 1

\* a search has returned entries for a roster whose slots are out of order
C16_SearchWitness ==
    /\ pc = "roster listed"
    /\ Len(heap[returned]) > 0
    /\ \E k \in DOMAIN heap[argument] :
          LET slots == heap[heap[argument][k].availableSlots]
          IN  \E i, j \in DOMAIN slots : i < j /\ slots[i].date > slots[j].date

\* the arrays hold what the functions over values compute
HeapAgreesWithValues ==
    /\ pc = "dates optimized" =>
          heap[returned] = optimizeSlots(heap[argument], durationMinutes)
    /\ pc = "roster assessed" =>
          LET cs == [i \in DOMAIN heap[argument] |-> Deref(heap, heap[argument][i])]
              expected == findAssessmentSlots(patient, cs)
          IN  /\ Len(heap[returned]) = Len(expected)
              /\ \A i \in DOMAIN expected :
                    /\ Deref(heap, heap[returned][i].clinician) = expected[i].clinician
                    /\ heap[heap[returned][i].availableSlotPairs] = expected[i].availableSlotPairs
    /\ pc = "roster listed" =>
          LET cs == [i \in DOMAIN heap[argument] |-> Deref(heap, heap[argument][i])]
              expected == findTherapySlots(patient, cs)
          IN  /\ Len(heap[returned]) = Len(expected)
              /\ \A i \in DOMAIN expected :
                    /\ Deref(heap, heap[returned][i].clinician) = expected[i].clinician
                    /\ heap[heap[returned][i].availableSlots] = expected[i].availableSlots

----------------------------------------------------------------------------
(* Properties of the calendar utilities *)

\* the calendar date (year, month, day of the month, UTC) of an instant
CalendarDate(t) == CivilFromDays(t \div DayMinutes)

\* C17: getStartOfWeek(t) is 00:00 UTC of the Monday of t's week: it is a
\* Monday midnight, getStartOfWeek(t) <= t < getStartOfWeek(t) + 7 days, and
\* for a Sunday t it is the Monday 6 days before, also when that Monday lies
\* in the previous month or year.
C17_StartOfWeekIsMonday ==
    pc = "week" =>
        /\ getUTCDay(startOfWeek) = 1
        /\ startOfWeek % DayMinutes = 0
        /\ startOfWeek <= instant
        /\ instant < startOfWeek + 7 * 24 * 60
        /\ getUTCDay(instant) = 0 =>
               /\ (instant \div DayMinutes) - (startOfWeek \div DayMinutes) = 6
               /\ CalendarDate(startOfWeek) \in
                      {[year |-> 2022, month |-> 12, day |-> 26],
                       [year |-> 2024, month |-> 2, day |-> 26],
                       [year |-> 2024, month |-> 8, day |-> 26]}

\* the week of Sunday 2023-01-01 starts in 2022
C17_Witness ==
    /\ pc = "week"
    /\ getUTCDay(instant) = 0
    /\ CalendarDate(instant) = [year |-> 2023, month |-> 1, day |-> 1]
    /\ CalendarDate(startOfWeek).year = 2022

\* C18: getStartOfDay(t) <= t < getStartOfDay(t) + 24 h, getStartOfDay is
\* idempotent, and two instants are on the same UTC calendar day exactly when
\* their getStartOfDay values are equal.
C18_StartOfDay ==
    pc \in {"day", "week"} =>
        /\ startOfDay <= instant
        /\ instant < startOfDay + 24 * 60
        /\ getStartOfDay(startOfDay) = startOfDay
        /\ \A u \in CalInstants :
              (CalendarDate(u) = CalendarDate(instant)) <=> (getStartOfDay(u) = startOfDay)

\* the day of an instant at 23:59 whose next minute is on the next day
C18_Witness ==
    /\ pc = "day"
    /\ instant % DayMinutes = 23 * 60 + 59
    /\ startOfDay = instant - (23 * 60 + 59)
    /\ \E u \in CalInstants : u = instant + 1 /\ getStartOfDay(u) # startOfDay

\* the calendar arithmetic agrees with the dates the tests name
CalendarAgrees ==
    /\ DaysFromCivil(2024, 8, 19) * DayMinutes = Aug19
    /\ getUTCDay(Aug19) = 1
    /\ \A t \in CalInstants :
          LET civil == CalendarDate(t)
          IN  DaysFromCivil(civil.year, civil.month, civil.day) = t \div DayMinutes

----------------------------------------------------------------------------
(* Properties of the two counters *)

\* the Monday-to-Sunday week an instant lies in, numbered from the week of
\* Monday 1969-12-29
WeekNumber(t) == ((t \div DayMinutes) + 3) \div 7

\* the clinician with the i-th appointment alone
OnlyAppointment(c, i) == [c EXCEPT !.appointments = <<c.appointments[i]>>]

\* C19: each capacity-consuming appointment is counted for exactly one day
\* and one week: getAppointmentsOnDay counts it for the dates of its own UTC
\* calendar day only, getAppointmentsInWeek for the dates of its own
\* Monday-to-Sunday week only, so an appointment at exactly midnight belongs
\* to the day (week) that starts then and not to the one that ends.
C19_OneDayOneWeek ==
    LET c == clinicians[1]
        consuming == {i \in DOMAIN c.appointments : c.appointments[i].status \in Consuming}
    IN  /\ pc \in {"day counted", "week counted"} =>
              /\ countOnDay = Cardinality({i \in consuming :
                     CalendarDate(c.appointments[i].scheduledFor) = CalendarDate(instant)})
              /\ \A i \in consuming :
                    Cardinality({d \in {getStartOfDay(t) : t \in CountDates} :
                                     getAppointmentsOnDay(OnlyAppointment(c, i), d) = 1}) = 1
        /\ pc = "week counted" =>
              /\ countInWeek = Cardinality({i \in consuming :
                     WeekNumber(c.appointments[i].scheduledFor) = WeekNumber(instant)})
              /\ \A i \in consuming :
                    Cardinality({w \in {getStartOfWeek(t) : t \in CountDates} :
                                     getAppointmentsInWeek(OnlyAppointment(c, i), w) = 1}) = 1

\* the appointment of Monday 2024-08-19 00:00 is not counted for the Sunday
\* before it, neither for its day nor for its week
C19_Witness ==
    /\ pc = "week counted"
    /\ instant = At(-1, 12, 0)
    /\ \E i \in DOMAIN clinicians[1].appointments :
          clinicians[1].appointments[i] = Appointment(At(0, 0, 0), "UPCOMING")
    /\ countOnDay = 0
    /\ countInWeek = 0

----------------------------------------------------------------------------
(* Properties of the per-clinician evaluation *)

\* the same entries, each as often, whatever the order
SameEntries(a, b) ==
    /\ Len(a) = Len(b)
    /\ \A e \in Range(a) \cup Range(b) : Occurrences(a, e) = Occurrences(b, e)

\* C20: the per-clinician evaluations are independent: run in any order and
\* interleaving and merged, they yield the same entries as the sequential
\* findAssessmentSlots / findTherapySlots on the same patient and roster, and
\* each entry is what the loop body yields for its clinician alone.
C20_OrderIndependent ==
    /\ (pc \in {"assessed", "listed"}
          /\ pending \cap ({"assessment"} \X DOMAIN clinicians) = {}) =>
            /\ SameEntries(merged.assessment, assessmentResults)
            /\ \A e \in Range(assessmentResults) :
                  AssessClinician(patient, e.clinician, <<>>) = <<e>>
    /\ (pc = "listed" /\ pending \cap ({"therapy"} \X DOMAIN clinicians) = {}) =>
            /\ SameEntries(merged.therapy, therapyResults)
            /\ \A e \in Range(therapyResults) :
                  TherapyClinician(patient, e.clinician, <<>>) = <<e>>

\* all evaluations are merged, in another order than the sequential search's
C20_Witness ==
    /\ pc = "listed"
    /\ pending = {}
    /\ Len(assessmentResults) = 2
    /\ merged.assessment # assessmentResults

----------------------------------------------------------------------------
(* Properties of the loops *)

\* every clinician that qualifies has its entry
AllConsidered ==
    /\ \A i \in DOMAIN clinicians :
          LET c == clinicians[i] IN
          /\ (c.clinicianType = "PSYCHOLOGIST" /\ Covers(c, patient) /\ HasValidPair(c))
                => \E r \in Range(merged.assessment) : r.clinician = c
          /\ (c.clinicianType = "THERAPIST" /\ Covers(c, patient) /\ HasValidSlot(c))
                => \E r \in Range(merged.therapy) : r.clinician = c
    /\ merged.assessment = findAssessmentSlots(patient, clinicians)
    /\ merged.therapy = findTherapySlots(patient, clinicians)

\* C21: for every patient and finite roster both searches terminate with a
\* complete result: every clinician is considered, and a clinician that is
\* skipped never stops the processing of the clinicians after it.
C21_TerminatesComplete == <>[](pending = {} /\ AllConsidered)

\* both loops are through, and an entry was made for a clinician that comes
\* after a skipped one
C21_Witness ==
    /\ pc = "loop"
    /\ pending = {}
    /\ Len(clinicians) >= 2
    /\ \A r \in Range(merged.assessment) : r.clinician # clinicians[1]
    /\ \E r \in Range(merged.assessment) : r.clinician = clinicians[2]
    /\ clinicians[1].clinicianType = "PSYCHOLOGIST"

----------------------------------------------------------------------------
(* Properties of the assessment search against an exhaustive scan *)

\* the positions of c's 90-minute slots
AssessmentPositions(c) ==
    {i \in DOMAIN c.availableSlots : c.availableSlots[i].length = 90}

\* every ordered pair of c's 90-minute slots on different days at most seven
\* days apart that c can take, found by scanning all pairs of positions
NaivePairs(c) ==
    {p \in AssessmentPositions(c) \X AssessmentPositions(c) :
        LET a == c.availableSlots[p[1]].date
            b == c.availableSlots[p[2]].date
        IN  /\ getStartOfDay(a) < getStartOfDay(b)
            /\ getStartOfDay(b) - getStartOfDay(a) <= 7 * DayMinutes
            /\ canAccommodateAppointments(c, <<a, b>>)}

\* how often the search emitted (a, b) for c
EmittedCount(c, a, b) ==
    LET entries == {n \in DOMAIN assessmentResults : assessmentResults[n].clinician = c}
    IN  IF entries = {} THEN 0
        ELSE LET pairs == assessmentResults[CHOOSE n \in entries : TRUE].availableSlotPairs
             IN  Cardinality({k \in DOMAIN pairs :
                                 pairs[k].session1 = a /\ pairs[k].session2 = b})

\* how often the exhaustive scan finds (a, b) for c
NaiveCount(c, a, b) ==
    Cardinality({p \in NaivePairs(c) :
                    c.availableSlots[p[1]].date = a /\ c.availableSlots[p[2]].date = b})

\* C22: for every eligible psychologist the search emits exactly the pairs
\* (a, b) of its 90-minute slots with startOfDay(a) < startOfDay(b), the two
\* days at most 7 days apart and canAccommodate(clinician, [a, b]); grouping
\* by day, the headroom pre-filter and the early termination neither drop a
\* valid pair nor add an invalid one.
C22_EqualsExhaustiveScan ==
    pc = "assessed" =>
        \A i \in DOMAIN clinicians :
            LET c == clinicians[i] IN
            /\ Cardinality({n \in DOMAIN assessmentResults :
                               assessmentResults[n].clinician = c}) <= 1
            /\ \A a \in AssessmentInstants(c), b \in AssessmentInstants(c) :
                  EmittedCount(c, a, b) = NaiveCount(c, a, b)
            /\ \A r \in Range(assessmentResults) :
                  \A k \in DOMAIN r.availableSlotPairs :
                      /\ r.availableSlotPairs[k].session1 \in AssessmentInstants(r.clinician)
                      /\ r.availableSlotPairs[k].session2 \in AssessmentInstants(r.clinician)

\* a pair was emitted although the pre-filter dropped a full day and the scan
\* stopped early at a day more than a week later
C22_Witness ==
    /\ pc = "assessed"
    /\ assessmentResults # <<>>
    /\ \E a \in AssessmentInstants(clinicians[1]) :
          getAppointmentsOnDay(clinicians[1], a) >= clinicians[1].maxDailyAppointments
    /\ \E a \in AssessmentInstants(clinicians[1]), b \in AssessmentInstants(clinicians[1]) :
          getStartOfDay(b) - getStartOfDay(a) > 7 * DayMinutes

----------------------------------------------------------------------------
(* Properties of the optimizer over a window of offsets *)

\* the earliest instant of S
Earliest(S) == CHOOSE x \in S : \A y \in S : x <= y

\* C23: for D > 0 optimizeSlots returns the earliest-first greedy selection,
\* ascending: the earliest instant, then each time the earliest instant at or
\* after the previous one plus D, until none is left; for the 15-minute
\* offsets spanning a 90-minute window and D = 90 that is the first instant
\* and the one 90 minutes later, two instants and never three.
C23_EarliestFirstGreedy ==
    (pc = "optimized" /\ durationMinutes > 0) =>
        LET S == Range(dates)
            n == Len(selected)
            after(k) == {d \in S : d >= selected[k] + durationMinutes}
        IN  /\ (S = {}) = (n = 0)
            /\ n > 0 => selected[1] = Earliest(S)
            /\ \A k \in 1..(n - 1) :
                  after(k) # {} /\ selected[k + 1] = Earliest(after(k))
            /\ n > 0 => after(n) = {}
            /\ (S = WindowInstants /\ durationMinutes = 90)
                  => selected = <<At(0, 12, 0), At(0, 13, 30)>>

\* the seven offsets of the window were optimized for 90 minutes, from a list
\* that held them latest first
C23_Witness ==
    /\ pc = "optimized"
    /\ durationMinutes = 90
    /\ Range(dates) = WindowInstants
    /\ dates[1] = At(0, 13, 30)
    /\ Len(selected) = 2

----------------------------------------------------------------------------
(* Properties of back-to-back instants *)

\* C24: adjacency is permitted.  Two instants exactly D apart may both be
\* selected by optimizeSlots: an instant that starts where a selected one
\* ends is the next one selected.  findTherapySlots lists both of two
\* back-to-back 60-minute slots on a day with capacity.
C24_AdjacencyPermitted ==
    /\ (pc \in {"optimized", "reoptimized"} /\ durationMinutes > 0) =>
          \A k \in DOMAIN selected :
              (selected[k] + durationMinutes) \in Range(dates) =>
                  /\ k < Len(selected)
                  /\ selected[k + 1] = selected[k] + durationMinutes
    /\ pc = "listed" =>
          \A i \in DOMAIN clinicians :
              LET c == clinicians[i]
                  listed == UNION {Range(r.availableSlots) :
                                      r \in {x \in Range(therapyResults) : x.clinician = c}}
              IN  /\ \A a \in listed :
                        ((a + 60) \in TherapyInstants(c) /\ SameDay(a, a + 60)
                             /\ canAccommodateAppointments(c, <<a>>))
                            => (a + 60) \in listed
                  /\ \A a \in TherapyInstants(c) :
                        (TherapyInstants(c) = {a, a + 60}
                             /\ canAccommodateAppointments(c, <<a>>))
                            => listed = {a, a + 60}

\* the therapist of the test has both of its back-to-back slots listed
C24_Witness ==
    /\ pc = "listed"
    /\ Len(clinicians) = 1
    /\ TherapyInstants(clinicians[1]) = {At(0, 12, 0), At(0, 13, 0)}
    /\ Len(therapyResults) = 1
    /\ therapyResults[1].availableSlots = <<At(0, 12, 0), At(0, 13, 0)>>

\* the number of the calendar day of t
DayNumber(t) == t \div DayMinutes

\* the search emitted (a, b) for c
Emitted(c, a, b) ==
    \E e \in EmittedPairs :
        e.clinician = c /\ e.pair.session1 = a /\ e.pair.session2 = b

\* C25: the 7-day limit is measured between calendar days and is inclusive:
\* two sessions on days exactly 7 apart are paired whatever their times of
\* day, capacity permitting, and sessions on days 8 or more apart are never
\* paired.
C25_SevenCalendarDaysInclusive ==
    pc = "assessed" =>
        \A i \in DOMAIN clinicians :
            LET c == clinicians[i] IN
            \A a \in AssessmentInstants(c), b \in AssessmentInstants(c) :
                /\ (DayNumber(b) - DayNumber(a) = 7
                        /\ canAccommodateAppointments(c, <<a, b>>))
                       => Emitted(c, a, b)
                /\ DayNumber(b) - DayNumber(a) >= 8
                       => ~Emitted(c, a, b) /\ ~Emitted(c, b, a)

\* two sessions more than 7 * 24 hours apart, on days exactly 7 apart, were
\* paired, and a slot on the day after was not paired with the first
C25_Witness ==
    /\ pc = "assessed"
    /\ \E e \in EmittedPairs :
          /\ DayNumber(e.pair.session2) - DayNumber(e.pair.session1) = 7
          /\ e.pair.session2 - e.pair.session1 > 7 * DayMinutes
          /\ \E b \in AssessmentInstants(e.clinician) :
                /\ DayNumber(b) - DayNumber(e.pair.session1) = 8
                /\ canAccommodateAppointments(e.clinician, <<e.pair.session1, b>>)
                /\ ~Emitted(e.clinician, e.pair.session1, b)

\* the calendar days of c's 90-minute slots on which c has room for one more
\* appointment
HeadroomDays(c) ==
    {DayNumber(a) : a \in {x \in AssessmentInstants(c) :
                              ConsumingOnDay(c, x) + 1 <= c.maxDailyAppointments}}

\* C26: a psychologist with fewer than two 90-minute slots, or whose
\* 90-minute slots with daily headroom fall on fewer than two distinct
\* calendar days, yields no pair and is omitted from the results.
C26_TooFewSlotsOrDaysOmitted ==
    pc = "assessed" =>
        \A i \in DOMAIN clinicians :
            LET c == clinicians[i] IN
            (Cardinality(AssessmentPositions(c)) < 2 \/ Cardinality(HeadroomDays(c)) < 2)
                => \A r \in Range(assessmentResults) : r.clinician # c

\* a psychologist with 90-minute slots on two days, one of them full, was
\* searched and omitted
C26_Witness ==
    /\ pc = "assessed"
    /\ assessmentResults = <<>>
    /\ Cardinality(AssessmentPositions(clinicians[1])) >= 2
    /\ Cardinality({DayNumber(a) : a \in AssessmentInstants(clinicians[1])}) = 2
    /\ Cardinality(HeadroomDays(clinicians[1])) = 1

----------------------------------------------------------------------------
(* Properties of the searches over slots of mixed lengths *)

\* C27: the results are drawn only from slots of the matching duration of the
\* same clinician: both sessions of an emitted pair are start instants of
\* 90-minute slots of the entry's clinician, and every listed therapy instant
\* is the start instant of a 60-minute slot of the entry's clinician.
C27_MatchingDurationSameClinician ==
    /\ pc \in {"assessed", "listed"} =>
          \A r \in Range(assessmentResults) :
              /\ r.clinician \in Range(clinicians)
              /\ \A k \in DOMAIN r.availableSlotPairs :
                    /\ r.availableSlotPairs[k].session1 \in AssessmentInstants(r.clinician)
                    /\ r.availableSlotPairs[k].session2 \in AssessmentInstants(r.clinician)
    /\ pc = "listed" =>
          \A r \in Range(therapyResults) :
              /\ r.clinician \in Range(clinicians)
              /\ \A k \in DOMAIN r.availableSlots :
                    r.availableSlots[k] \in TherapyInstants(r.clinician)

\* a psychologist that also has 60-minute slots and a therapist that also has
\* 90-minute slots, with other instants than the psychologist, both have an
\* entry
C27_Witness ==
    /\ pc = "listed"
    /\ \E r \in Range(assessmentResults), q \in Range(therapyResults) :
          /\ TherapyInstants(r.clinician) \ AssessmentInstants(r.clinician) # {}
          /\ AssessmentInstants(q.clinician) \ TherapyInstants(q.clinician) # {}
          /\ AssessmentInstants(q.clinician) # AssessmentInstants(r.clinician)

----------------------------------------------------------------------------
(* Properties of the therapy schedule across days *)

\* C28: the slots that findTherapySlots returns for one clinician form a
\* non-overlapping schedule: any two listed instants a < b satisfy
\* b >= a + 60 minutes, for every input slot set, slots on consecutive days
\* close to midnight included.
C28_NonOverlappingSchedule ==
    pc = "listed" =>
        \A r \in Range(therapyResults) :
            \A a \in Range(r.availableSlots), b \in Range(r.availableSlots) :
                a < b => b >= a + 60

\* c's 60-minute slot instants that c can take on their own, grouped by day,
\* each day optimized, in ascending order: the capacity filter first, the
\* optimizer second
FilterThenOptimize(c) ==
    LET admitted == SelectSeq(SlotDates(c, 60),
                              LAMBDA slot : canAccommodateAppointments(c, <<slot>>))
        byDay == SlotsByDay(admitted, Len(admitted))
        unsorted == OptimizedSlots(byDay, Len(byDay))
    IN  StableSort(unsorted, unsorted)

\* the instants listed for c
ListedFor(c) ==
    LET entries == {n \in DOMAIN therapyResults : therapyResults[n].clinician = c}
    IN  IF entries = {} THEN <<>>
        ELSE therapyResults[CHOOSE n \in entries : TRUE].availableSlots

\* C29: in findTherapySlots the capacity filter keeps or drops all of a
\* calendar day's slots together, canAccommodate(clinician, [s]) depending
\* only on the day and week of s, so optimizing per day and then filtering by
\* capacity yields the same list as filtering by capacity first and then
\* optimizing per day.
C29_FilterCommutesWithOptimizer ==
    pc = "listed" =>
        \A i \in DOMAIN clinicians :
            LET c == clinicians[i] IN
            /\ \A s \in TherapyInstants(c), t \in TherapyInstants(c) :
                  DayNumber(s) = DayNumber(t) =>
                      /\ canAccommodateAppointments(c, <<s>>)
                             = canAccommodateAppointments(c, <<t>>)
                      /\ (s \in Range(optimizeSlots(TherapyDaySlots(c, s), 60))
                             /\ t \in Range(optimizeSlots(TherapyDaySlots(c, t), 60)))
                            => (s \in Range(ListedFor(c))) = (t \in Range(ListedFor(c)))
            /\ ListedFor(c) = FilterThenOptimize(c)

\* of a therapist with optimized slots on two days, the filter dropped a day
\* with two of them and kept the other day
C29_Witness ==
    /\ pc = "listed"
    /\ Len(therapyResults) = 1
    /\ \E s \in TherapyInstants(clinicians[1]), t \in TherapyInstants(clinicians[1]) :
          /\ s # t
          /\ DayNumber(s) = DayNumber(t)
          /\ {s, t} \subseteq Range(optimizeSlots(TherapyDaySlots(clinicians[1], s), 60))
          /\ ~canAccommodateAppointments(clinicians[1], <<s>>)
          /\ s \notin Range(ListedFor(clinicians[1]))
          /\ t \notin Range(ListedFor(clinicians[1]))

----------------------------------------------------------------------------
(* Properties of the capacity check under growing and shrinking load *)

\* c with apt as one more appointment, at position k of its appointments
WithAppointment(c, apt, k) ==
    [c EXCEPT !.appointments =
        SubSeq(@, 1, k - 1) \o <<apt>> \o SubSeq(@, k, Len(@))]

\* c without its k-th appointment
WithoutAppointment(c, k) ==
    [c EXCEPT !.appointments = SubSeq(@, 1, k - 1) \o SubSeq(@, k + 1, Len(@))]

\* the elements of s at the positions in keep, in their order
RECURSIVE SubList(_, _, _)
SubList(s, keep, n) ==
    IF n = 0 THEN <<>>
    ELSE IF n \in keep THEN Append(SubList(s, keep, n - 1), s[n])
    ELSE SubList(s, keep, n - 1)

\* the appointments that may be added: each status on each day of the pool and
\* of the proposals
AddedAppointments ==
    {Appointment(t, st) :
        t \in {At(0, 10, 0), At(6, 15, 0), At(7, 10, 0)}, st \in AppointmentStatus}

\* C30: canAccommodate is anti-monotone in load: when canAccommodate(clinician,
\* P) is false it stays false after adding any appointment to the clinician or
\* any instant to P; when it is true it stays true for every sub-list of P and
\* after removing any appointment; canAccommodate(clinician, []) is true for
\* every clinician.
C30_AntiMonotoneInLoad ==
    pc = "accommodated" =>
        LET c == clinicians[1] IN
        /\ ~accommodates =>
              /\ \A apt \in AddedAppointments, k \in {1, Len(c.appointments) + 1} :
                    ~canAccommodateAppointments(WithAppointment(c, apt, k), proposed)
              /\ \A t \in LoadProposedInstants :
                    /\ ~canAccommodateAppointments(c, Append(proposed, t))
                    /\ ~canAccommodateAppointments(c, <<t>> \o proposed)
        /\ accommodates =>
              /\ \A keep \in SUBSET DOMAIN proposed :
                    canAccommodateAppointments(c, SubList(proposed, keep, Len(proposed)))
              /\ \A k \in DOMAIN c.appointments :
                    canAccommodateAppointments(WithoutAppointment(c, k), proposed)
        /\ canAccommodateAppointments(c, <<>>)

\* proposals on two days were refused for a clinician with appointments that
\* can take the second instant alone but not the first
C30_Witness ==
    /\ pc = "accommodated"
    /\ Len(proposed) >= 2
    /\ ~SameDay(proposed[1], proposed[2])
    /\ clinicians[1].appointments # <<>>
    /\ ~accommodates
    /\ canAccommodateAppointments(clinicians[1], <<proposed[2]>>)
    /\ ~canAccommodateAppointments(clinicians[1], <<proposed[1]>>)

====
